---- MODULE Spec2Model ----
(***************************************************************************)
(* A model of the torshare tracker engine: the in-memory swarm store and   *)
(* the announce executor, the announce peer selector, the full-scrape      *)
(* cache, the connection pool, the generic cache and the Worker actor.     *)
(* Every subsystem has its own next-state relation and specification; the  *)
(* variables of the other subsystems stay as constructed.                  *)
(***************************************************************************)
EXTENDS Integers, Sequences, FiniteSets, TLC

(***************************************************************************)
(* Bounds of the model.                                                    *)
(***************************************************************************)
\* the number of announces issued over one behaviour
MaxAnnounces == 3

InfoHashes == {"ihA"}
Families == {"V4", "V6"}
PeerIdKeys == {"k1", "k2"}
\* the announce handlers that may run at the same time (spawned tasks)
Tasks == {"t1", "t2"}
Events == {"Started", "Stopped", "Completed", "Paused", "None"}
\* req.left: 0 (complete copy) or a positive number of bytes
LeftValues == {0, 1}
\* config.infohash_blocklist
Blocklist == {"ihBlocked"}

VARIABLES
    \* ---- swarm store and announce handlers
    torrents,       \* shard.torrents: info_hash -> completed counter
    swarms,         \* shard.swarms: <<info_hash, family>> -> TorrentSwarm
    task,           \* the announce handler running in each task slot
    issued,         \* announces issued so far
    autoRegister,   \* config.auto_register_torrent()
    nLeechIns,      \* history: insertions of a new key into a leechers table
    nIncr           \* history: calls of incr_completed

VARIABLES
    \* ---- full-scrape cache
    fsData,         \* FullScrapeCache.data: "None" or the payload held
    fsExpires,      \* CacheEntry.expires against the clock: unset, future, past
    fsRefreshing,   \* CacheEntry.refreshing
    fsTask,         \* the position of each spawned refresh task
    fsSpawned,      \* refresh tasks spawned so far
    fsReply         \* the body of the last full-scrape response

VARIABLES
    \* ---- connection pool
    poolChan,       \* the actor's mpsc channel, oldest message first
    poolPermits,    \* semaphore.available_permits()
    poolIdle,       \* internals.conns, oldest first, each within or past idle_timeout
    getter,         \* where each client's get request stands
    poolPutting,    \* put_back tasks that have not sent their PutConn yet
    testOnCheckOut, \* builder.test_on_check_out
    poolDropping    \* invalid connections still owned by a send_connection task
                    \* that has put its request back and is about to return

VARIABLES
    \* ---- generic cache
    cachePolicy,    \* statics.policy
    cacheMap,       \* map: key -> CacheEntry
    cacheChan,      \* the actor's mpsc channel, oldest message first
    cacheLoads,     \* loader calls in progress, each with its watch sender
    cacheGets,      \* the get calls made so far and where each stands
    watchVal,       \* per watch channel created: the value sent, or "unset"
    cacheWrites     \* the set and invalidate calls made so far, with the reply

VARIABLES
    \* ---- announce peer selection
    exReq,          \* the announce being answered and the swarm it meets
    exPeers,        \* the keys of the peers put into the response, in order
    exPc            \* idle, new (extractor not yet run), done

VARIABLES
    \* ---- Worker
    wkPackets,      \* the packets offered so far: kind, position, replies sent
    wkChan,         \* the Worker channel: indices of the buffered packets
    wkClosed,       \* receiver.close() has been called
    wkStateVersion  \* which UpdateState the loop's state comes from, 0 at start

VARIABLES
    \* ---- announce response
    resp            \* per task slot: the response being built or last sent

VARIABLES
    \* ---- one TorrentSwarm under a sequence of its own operations
    oneSwarm,       \* its three peer tables
    swarmOps        \* how many operations have been applied to it

VARIABLES
    \* ---- the locks of the in-memory store
    lkHolders,      \* per lock: the guards out, as <<operation slot, mode>>
    lkQueue,        \* per lock: the waiting requests, oldest first
    lkProc,         \* per operation slot: the operation and its position
    lkStarted       \* how many operations have been started

VARIABLES
    \* ---- Worker loop
    wkStopped       \* recv() has returned None and run() has returned

VARIABLES
    \* ---- one Shared<T> allocation and its handles
    shCounter,      \* ArcInner.counter, an AtomicU8
    shLive,         \* how many handles exist (not dropped)
    shFreed         \* drop_slow has freed the allocation

storeVars == <<torrents, swarms, task, issued, autoRegister, nLeechIns, nIncr>>
fsVars == <<fsData, fsExpires, fsRefreshing, fsTask, fsSpawned, fsReply>>

poolVars == <<poolChan, poolPermits, poolIdle, getter, poolPutting, testOnCheckOut, poolDropping>>

cacheVars == <<cachePolicy, cacheMap, cacheChan, cacheLoads, cacheGets, watchVal, cacheWrites>>

extractVars == <<exReq, exPeers, exPc>>

workerVars == <<wkPackets, wkChan, wkClosed, wkStateVersion>>
respVars == <<resp>>
tableVars == <<oneSwarm, swarmOps>>
loopVars == <<wkStopped>>
lockVars == <<lkHolders, lkQueue, lkProc, lkStarted>>
sharedVars == <<shCounter, shLive, shFreed>>

\* the variables each subsystem leaves alone
otherThanStore == <<fsVars, poolVars, cacheVars, extractVars, workerVars, tableVars, loopVars, lockVars, sharedVars>>
otherThanAnnounce == <<otherThanStore, respVars>>
otherThanFs == <<storeVars, poolVars, cacheVars, extractVars, workerVars, respVars, tableVars, loopVars, lockVars, sharedVars>>
otherThanPool == <<storeVars, fsVars, cacheVars, extractVars, workerVars, respVars, tableVars, loopVars, lockVars, sharedVars>>
otherThanCache == <<storeVars, fsVars, poolVars, extractVars, workerVars, respVars, tableVars, loopVars, lockVars, sharedVars>>
otherThanExtract == <<storeVars, fsVars, poolVars, cacheVars, workerVars, respVars, tableVars, loopVars, lockVars, sharedVars>>
otherThanWorker == <<storeVars, fsVars, poolVars, cacheVars, extractVars, respVars, tableVars, loopVars, lockVars, sharedVars>>
otherThanTable == <<storeVars, fsVars, poolVars, cacheVars, extractVars, workerVars, respVars, loopVars, lockVars, sharedVars>>
otherThanLocks == <<storeVars, fsVars, poolVars, cacheVars, extractVars, workerVars, respVars, tableVars, loopVars, sharedVars>>
otherThanShared == <<storeVars, fsVars, poolVars, cacheVars, extractVars, workerVars, respVars, tableVars, loopVars, lockVars>>
otherThanLoop == <<storeVars, fsVars, poolVars, cacheVars, extractVars, workerVars, respVars, tableVars, lockVars, sharedVars>>

(***************************************************************************)
(* PeerDict: an IndexMap keyed by PeerIdKey, modelled by the sequence of   *)
(* its keys in iteration order.                                            *)
(***************************************************************************)
Has(d, k) == \E i \in 1..Len(d) : d[i] = k

IndexOf(d, k) == CHOOSE i \in 1..Len(d) : d[i] = k

\* an insert that appends whatever the table holds
DictInsertAppend(d, k) == Append(d, k)

\* IndexMap::insert: a new key goes to the end, a present key keeps its place
DictInsert(d, k) == IF Has(d, k) THEN d ELSE Append(d, k)

\* a removal that drops the last entry whatever the key
DictRemoveLast(d, k) == SubSeq(d, 1, Len(d) - 1)

\* IndexMap::remove is swap_remove: the last entry takes the removed one's place
DictRemove(d, k) ==
    IF ~Has(d, k) THEN d
    ELSE LET i == IndexOf(d, k)
             n == Len(d)
         IN  IF i = n THEN SubSeq(d, 1, n - 1)
             ELSE SubSeq(d, 1, i - 1) \o <<d[n]>> \o SubSeq(d, i + 1, n - 1)

\* TorrentSwarm::default
EmptySwarm == [seeders |-> <<>>, leechers |-> <<>>, partial_seeds |-> <<>>]

\* TorrentSwarm::insert_peer
insert_peer(s, k, peer_type) ==
    CASE peer_type = "Leecher" -> [s EXCEPT !.leechers = DictInsert(@, k)]
      [] peer_type = "Seeder"  -> [s EXCEPT !.seeders = DictInsert(@, k)]
      [] OTHER                 -> [s EXCEPT !.partial_seeds = DictInsert(@, k)]

\* TorrentSwarm::get_mut_peer: is there an entry to update
get_mut_peer(s, k, peer_type) ==
    IF peer_type = "Leecher" THEN Has(s.leechers, k)
    ELSE Has(s.seeders, k) \/ Has(s.partial_seeds, k)

\* TorrentSwarm::remove_peer
remove_peer(s, k, peer_type) ==
    IF peer_type = "Leecher" THEN [s EXCEPT !.leechers = DictRemove(@, k)]
    ELSE IF Has(s.seeders, k) THEN [s EXCEPT !.seeders = DictRemove(@, k)]
    ELSE [s EXCEPT !.partial_seeds = DictRemove(@, k)]

\* a promotion reported for every key
PromoteAlways(s, k) == TRUE

\* TorrentSwarm::promote_peer: whether the key was removed from leechers
promote_found(s, k) == Has(s.leechers, k)

\* TorrentSwarm::promote_peer: the swarm it leaves
promote_peer(s, k) ==
    IF promote_found(s, k)
    THEN insert_peer(remove_peer(s, k, "Leecher"), k, "Seeder")
    ELSE s

\* TorrentSwarm::update_or_insert_peer
update_or_insert_peer(s, k, peer_type) ==
    IF get_mut_peer(s, k, peer_type) THEN s ELSE insert_peer(s, k, peer_type)

\* SwarmGetMut::get_mut_or_insert_swarm
get_mut_or_insert_swarm(sw, ih, fam) ==
    IF <<ih, fam>> \in DOMAIN sw THEN sw[<<ih, fam>>] ELSE EmptySwarm

\* write_swarm!(..) followed by an operation f giving the new swarm
PutSwarm(sw, ih, fam, s) ==
    [x \in DOMAIN sw \cup {<<ih, fam>>} |-> IF x = <<ih, fam>> THEN s ELSE sw[x]]

\* MemoryStorage::insert_torrent: IndexMap::insert of the given or default torrent
insert_torrent(tor, ih, completed) ==
    [x \in DOMAIN tor \cup {ih} |-> IF x = ih THEN completed ELSE tor[x]]

\* a store that reports every torrent as present
HasTorrentAlways(tor, ih) == TRUE

\* MemoryStorage::has_torrent
has_torrent(tor, ih) == ih \in DOMAIN tor

\* an increment that leaves the counter as it was
IncrCompletedSkipped(c) == c

\* Torrent::incr_completed
incr_completed(c) == c + 1

\* the peer type an announce classifies its sender as (left == 0: Seeder)
ClassifiedType(left) == IF left = 0 THEN "Seeder" ELSE "Leecher"

(***************************************************************************)
(* The announce handler, one step per lock acquisition.                    *)
(***************************************************************************)
IdleTask == [pc |-> "idle", ih |-> "ihA", key |-> "k1", fam |-> "V4",
             event |-> "None", left |-> 0, promoted |-> FALSE, error |-> "none"]

\* the handler has returned: its request is dropped, its result stays
Finished(pc, error) == [IdleTask EXCEPT !.pc = pc, !.error = error]

SlotFree(t) == task[t].pc \in {"idle", "done", "err"}

\* a request enters execute(): the blocklist check
AnnounceBegin(t) ==
    /\ SlotFree(t)
    /\ issued < MaxAnnounces
    /\ \E ih \in InfoHashes \cup Blocklist, k \in PeerIdKeys, fam \in Families,
          ev \in Events, left \in LeftValues :
          task' = [task EXCEPT ![t] =
                     IF ih \in Blocklist THEN Finished("err", "blocked infohash")
                     ELSE [pc |-> "has", ih |-> ih, key |-> k, fam |-> fam,
                           event |-> ev, left |-> left, promoted |-> FALSE,
                           error |-> "none"]]
    /\ issued' = issued + 1
    /\ UNCHANGED <<torrents, swarms, autoRegister, nLeechIns, nIncr>>
    /\ UNCHANGED otherThanAnnounce

\* storage.has_torrent(info_hash)
AnnounceHas(t) ==
    /\ task[t].pc = "has"
    /\ task' = [task EXCEPT ![t] =
                  IF has_torrent(torrents, task[t].ih) THEN [@ EXCEPT !.pc = "event"]
                  ELSE IF autoRegister THEN [@ EXCEPT !.pc = "insert"]
                  ELSE Finished("err", "torrent not found")]
    /\ UNCHANGED <<torrents, swarms, issued, autoRegister, nLeechIns, nIncr>>
    /\ UNCHANGED otherThanAnnounce

\* storage.insert_torrent(info_hash, None)
AnnounceInsert(t) ==
    /\ task[t].pc = "insert"
    /\ torrents' = insert_torrent(torrents, task[t].ih, 0)
    /\ task' = [task EXCEPT ![t].pc = "event"]
    /\ UNCHANGED <<swarms, issued, autoRegister, nLeechIns, nIncr>>
    /\ UNCHANGED otherThanAnnounce

\* the swarm an event leaves, under the swarms write lock
EventSwarm(s, k, ev, left) ==
    CASE ev = "Started"   -> insert_peer(s, k, ClassifiedType(left))
      [] ev = "Completed" -> promote_peer(s, k)
      [] ev = "Paused"    -> update_or_insert_peer(s, k, "Partial")
      [] OTHER            -> update_or_insert_peer(s, k, ClassifiedType(left))

\* match req.event { .. }
AnnounceEvent(t) ==
    LET r == task[t]
        s == get_mut_or_insert_swarm(swarms, r.ih, r.fam)
    IN  /\ r.pc = "event"
        /\ IF r.event = "Completed" /\ ClassifiedType(r.left) # "Seeder"
           THEN /\ task' = [task EXCEPT ![t] = Finished("err", "invalid announce request")]
                /\ UNCHANGED <<swarms, nLeechIns>>
           ELSE IF r.event = "Stopped"
           THEN \* remove_peer_from_swarm: no swarm is created
                /\ swarms' = IF <<r.ih, r.fam>> \in DOMAIN swarms
                             THEN [swarms EXCEPT ![<<r.ih, r.fam>>] =
                                     remove_peer(@, r.key, ClassifiedType(r.left))]
                             ELSE swarms
                /\ task' = [task EXCEPT ![t].pc = "respond"]
                /\ UNCHANGED nLeechIns
           ELSE /\ swarms' = PutSwarm(swarms, r.ih, r.fam,
                                      EventSwarm(s, r.key, r.event, r.left))
                /\ nLeechIns' = IF ~Has(s.leechers, r.key)
                                   /\ Has(swarms'[<<r.ih, r.fam>>].leechers, r.key)
                                THEN nLeechIns + 1 ELSE nLeechIns
                /\ task' = [task EXCEPT
                              ![t].pc = IF r.event = "Completed" /\ promote_found(s, r.key)
                                        THEN "incr" ELSE "respond",
                              ![t].promoted = r.event = "Completed"
                                              /\ promote_found(s, r.key)]
        /\ UNCHANGED <<torrents, issued, autoRegister, nIncr>>
        /\ UNCHANGED otherThanAnnounce

\* promote_peer_in_swarm: get_mut_torrent(info_hash)?.incr_completed()
AnnounceIncr(t) ==
    /\ task[t].pc = "incr"
    /\ IF task[t].ih \in DOMAIN torrents
       THEN /\ torrents' = [torrents EXCEPT ![task[t].ih] = incr_completed(@)]
            /\ nIncr' = nIncr + 1
            /\ task' = [task EXCEPT ![t].pc = "respond"]
       ELSE /\ task' = [task EXCEPT ![t] = Finished("err", "torrent not found")]
            /\ UNCHANGED <<torrents, nIncr>>
    /\ UNCHANGED <<swarms, issued, autoRegister, nLeechIns>>
    /\ UNCHANGED otherThanAnnounce

\* the response is assembled and returned
AnnounceRespond(t) ==
    /\ task[t].pc = "respond"
    /\ task' = [task EXCEPT ![t] = Finished("done", "none")]
    /\ UNCHANGED <<torrents, swarms, issued, autoRegister, nLeechIns, nIncr>>
    /\ UNCHANGED otherThanAnnounce

StoreInit ==
    /\ torrents \in {<<>>, [ih \in InfoHashes |-> 0]}
    /\ swarms = <<>>
    /\ task = [t \in Tasks |-> IdleTask]
    /\ issued = 0
    /\ autoRegister \in BOOLEAN
    /\ nLeechIns = 0
    /\ nIncr = 0

StoreNext ==
    \E t \in Tasks :
        \/ AnnounceBegin(t)
        \/ AnnounceHas(t)
        \/ AnnounceInsert(t)
        \/ AnnounceEvent(t)
        \/ AnnounceIncr(t)
        \/ AnnounceRespond(t)

(***************************************************************************)
(* Full-scrape cache: servers/cache/mod.rs (CacheEntry), servers/cache/    *)
(* full_scrape.rs (refresh) and servers/http/handler.rs (full_scrape).     *)
(* The entry lives behind one tokio RwLock; a reader holds the read lock   *)
(* for its whole body, and refresh takes the write lock twice, once to     *)
(* decide and once to store the payload, with the worker call in between.  *)
(* The process modelled has allow_full_scrape switched on.                 *)
(***************************************************************************)
MaxRefreshSpawns == 4
\* the refresh tasks: one for each spawn, so a spawn never lacks a task
RefreshTasks == 1..MaxRefreshSpawns
Payloads == {"Stats", "Empty"}

\* CacheEntry::is_expired: no expiry set means not expired.
is_expired(expires) == expires = "past"

is_refreshing(refreshing) == refreshing

\* a refresh that always finds nothing to do
ShouldRefreshNever(data, expires, refreshing) == FALSE

\* refresh, first critical section: the match on cache.as_ref().
should_refresh(data, expires, refreshing) ==
    CASE data # "None" /\ is_expired(expires) /\ ~is_refreshing(refreshing) -> TRUE
      [] data = "None" -> TRUE
      [] OTHER -> FALSE

\* a write guard kept until refresh returns
GuardAcrossWork(pc) == pc \in {"working"} \cup Payloads

\* whether a refresh task at this point owns the write guard of the entry:
\* the guard of the first section is dropped at the end of its block, the
\* second is taken after worker.work() has returned, so at no await
holds_write_guard(pc) == FALSE

\* RwLock: a read or write lock is granted when no write guard is out
LockFree == \A r \in RefreshTasks : ~holds_write_guard(fsTask[r])

\* A refresh between set_refreshing and the write of its payload.
InFlight(r) == fsTask[r] \in {"working"} \cup Payloads

\* a reader given the default response whatever the entry holds
StaleNotServed(data) == "Default"

\* handler.rs full_scrape, match cache.as_ref(): the payload held, or
\* ScrapeResponse::default() when there is none
scrape_response(data) == IF data = "None" THEN "Default" ELSE data

\* handler.rs full_scrape: under the read lock, spawn a refresh when the
\* entry is expired or empty and not refreshing; answer with the payload
\* held, or with the default scrape response when there is none.
FullScrapeRead ==
    /\ fsSpawned < MaxRefreshSpawns
    /\ LockFree
    /\ LET is_cache_expired == is_expired(fsExpires) \/ fsData = "None"
       IN IF is_cache_expired /\ ~is_refreshing(fsRefreshing)
          THEN \E r \in RefreshTasks :
                  /\ fsTask[r] = "none"
                  /\ fsTask' = [fsTask EXCEPT ![r] = "spawned"]
                  /\ fsSpawned' = fsSpawned + 1
          ELSE UNCHANGED <<fsTask, fsSpawned>>
    /\ fsReply' = scrape_response(fsData)
    /\ UNCHANGED <<fsData, fsExpires, fsRefreshing>>
    /\ UNCHANGED otherThanFs

\* refresh, lines 37-54: decide under the write lock.
RefreshBegin(r) ==
    /\ fsTask[r] = "spawned"
    /\ LockFree
    /\ IF should_refresh(fsData, fsExpires, fsRefreshing)
       THEN /\ fsRefreshing' = TRUE
            /\ fsTask' = [fsTask EXCEPT ![r] = "working"]
       ELSE /\ fsTask' = [fsTask EXCEPT ![r] = "none"]
            /\ UNCHANGED fsRefreshing
    /\ UNCHANGED <<fsData, fsExpires, fsSpawned, fsReply>>
    /\ UNCHANGED otherThanFs

\* refresh, lines 56-60: the worker's answer, or empty bytes on any error.
RefreshWork(r) ==
    /\ fsTask[r] = "working"
    /\ \E data \in Payloads : fsTask' = [fsTask EXCEPT ![r] = data]
    /\ UNCHANGED <<fsData, fsExpires, fsRefreshing, fsSpawned, fsReply>>
    /\ UNCHANGED otherThanFs

\* refresh, lines 62-67 with CacheEntry::set: store payload and expiry,
\* clear the flag.
RefreshWrite(r) ==
    /\ fsTask[r] \in Payloads
    /\ fsData' = fsTask[r]
    /\ fsExpires' = "future"
    /\ fsRefreshing' = FALSE
    /\ fsTask' = [fsTask EXCEPT ![r] = "none"]
    /\ UNCHANGED <<fsSpawned, fsReply>>
    /\ UNCHANGED otherThanFs

\* The clock passes the stored expiry instant.
FsExpire ==
    /\ fsExpires = "future"
    /\ fsExpires' = "past"
    /\ UNCHANGED <<fsData, fsRefreshing, fsTask, fsSpawned, fsReply>>
    /\ UNCHANGED otherThanFs

\* Cache::new: CacheEntry::default() around FullScrapeCache::default().
FsInit ==
    /\ fsData = "None"
    /\ fsExpires = "unset"
    /\ fsRefreshing = FALSE
    /\ fsTask = [r \in RefreshTasks |-> "none"]
    /\ fsSpawned = 0
    /\ fsReply = "NoReply"

FsNext ==
    \/ FullScrapeRead
    \/ FsExpire
    \/ \E r \in RefreshTasks : RefreshBegin(r) \/ RefreshWork(r) \/ RefreshWrite(r)

(***************************************************************************)
(* Connection pool (libs/pool): the pool actor of internals.rs with its    *)
(* idle queue and semaphore, the tasks it spawns per get request           *)
(* (send_connection, make_new_connection, retry_for_get_conn) and the      *)
(* client side of inner.rs (get, put_back, reap).  Every Conn owns one     *)
(* permit of the semaphore, released when the Conn is dropped.             *)
(***************************************************************************)
\* builder.max_size
PoolMaxSize == 2
Getters == {"g1", "g2", "g3"}

\* builder.min_idle: the idle connections the pool is to maintain
PoolMinIdle == 1

\* a semaphore created with one permit too many
SemaphoreOneMore == PoolMaxSize + 1

\* Shared::new: Semaphore::new(builder.max_size)
SemaphoreNew == PoolMaxSize

\* SharedPool::channel: mpsc::channel(max_size * 2)
PoolChannelCap == PoolMaxSize * 2

ChanFull == Len(poolChan) >= PoolChannelCap

GetConn(g) == [type |-> "GetConn", tx |-> g]
PutConn == [type |-> "PutConn", tx |-> "-"]
Reap == [type |-> "Reap", tx |-> "-"]

\* PoolInner::get: send GetConn with a fresh oneshot, then await the reply.
PoolGet(g) ==
    /\ getter[g] = "idle"
    /\ ~ChanFull
    /\ poolChan' = Append(poolChan, GetConn(g))
    /\ getter' = [getter EXCEPT ![g] = "queued"]
    /\ UNCHANGED <<poolPermits, poolIdle, poolPutting, testOnCheckOut, poolDropping>>
    /\ UNCHANGED otherThanPool

\* SharedPool::run, Message::GetConn: send_connection pops the oldest idle
\* connection for a spawned Shared::send_connection, or spawns
\* make_new_connection when the queue is empty.
RecvGetConn ==
    /\ poolChan # <<>> /\ Head(poolChan).type = "GetConn"
    /\ poolChan' = Tail(poolChan)
    /\ IF poolIdle # <<>>
       THEN /\ poolIdle' = Tail(poolIdle)
            /\ getter' = [getter EXCEPT ![Head(poolChan).tx] = "checkout"]
       ELSE /\ getter' = [getter EXCEPT ![Head(poolChan).tx] = "make"]
            /\ UNCHANGED poolIdle
    /\ UNCHANGED <<poolPermits, poolPutting, testOnCheckOut, poolDropping>>
    /\ UNCHANGED otherThanPool

\* SharedPool::run, Message::PutConn: a connection that has not broken goes
\* to the back of the idle queue; a broken one is dropped with its permit.
RecvPutConn ==
    /\ poolChan # <<>> /\ Head(poolChan).type = "PutConn"
    /\ poolChan' = Tail(poolChan)
    /\ \E has_broken \in BOOLEAN :
          IF ~has_broken
          THEN poolIdle' = Append(poolIdle, "fresh") /\ UNCHANGED poolPermits
          ELSE poolPermits' = poolPermits + 1 /\ UNCHANGED poolIdle
    /\ UNCHANGED <<getter, poolPutting, testOnCheckOut, poolDropping>>
    /\ UNCHANGED otherThanPool

\* SharedPool::run, Message::Reap: keep the connections idle for less than
\* idle_timeout, drop the others.
RecvReap ==
    /\ poolChan # <<>> /\ Head(poolChan).type = "Reap"
    /\ poolChan' = Tail(poolChan)
    /\ poolIdle' = SelectSeq(poolIdle, LAMBDA c : c = "fresh")
    /\ poolPermits' = poolPermits + (Len(poolIdle) - Len(poolIdle'))
    /\ UNCHANGED <<getter, poolPutting, testOnCheckOut, poolDropping>>
    /\ UNCHANGED otherThanPool

\* Time passes: the oldest connection still within idle_timeout outlives it.
PoolAge ==
    /\ \E i \in 1..Len(poolIdle) :
          /\ poolIdle[i] = "fresh"
          /\ \A j \in 1..(i - 1) : poolIdle[j] = "stale"
          /\ poolIdle' = [poolIdle EXCEPT ![i] = "stale"]
    /\ UNCHANGED <<poolChan, poolPermits, getter, poolPutting, testOnCheckOut, poolDropping>>
    /\ UNCHANGED otherThanPool

\* Shared::send_connection: with test_on_check_out an invalid connection
\* makes the task retry the request, still owning the connection; otherwise
\* the connection is sent to the getter, and dropped if the getter has gone.
SendConnection(g) ==
    /\ getter[g] = "checkout"
    /\ \E is_valid \in BOOLEAN, received \in BOOLEAN :
          IF testOnCheckOut /\ ~is_valid
          THEN /\ getter' = [getter EXCEPT ![g] = "invalid"]
               /\ UNCHANGED poolPermits
          ELSE IF received
          THEN /\ getter' = [getter EXCEPT ![g] = "holding"]
               /\ UNCHANGED poolPermits
          ELSE /\ poolPermits' = poolPermits + 1
               /\ getter' = [getter EXCEPT ![g] = "idle"]
    /\ UNCHANGED <<poolChan, poolIdle, poolPutting, testOnCheckOut, poolDropping>>
    /\ UNCHANGED otherThanPool

\* a retry that loses the request
RetryLost(chan, g) == chan

\* retry_for_get_conn: channel.send(Message::GetConn(tx))
retry_send(chan, g) == Append(chan, GetConn(g))

\* send_connection after a failed is_valid: retry_for_get_conn(tx).await puts
\* the request back into the channel while the task still owns the connection.
RetryInvalid(g) ==
    /\ getter[g] = "invalid"
    /\ ~ChanFull
    /\ poolChan' = retry_send(poolChan, g)
    /\ getter' = [getter EXCEPT ![g] = "queued"]
    /\ poolDropping' = poolDropping + 1
    /\ UNCHANGED <<poolPermits, poolIdle, poolPutting, testOnCheckOut>>
    /\ UNCHANGED otherThanPool

\* send_connection returns: the invalid connection is dropped with its permit.
DropInvalid ==
    /\ poolDropping > 0
    /\ poolDropping' = poolDropping - 1
    /\ poolPermits' = poolPermits + 1
    /\ UNCHANGED <<poolChan, poolIdle, getter, poolPutting, testOnCheckOut>>
    /\ UNCHANGED otherThanPool

\* Shared::retry_for_get_conn from make_new_connection: the request goes back
\* into the channel.
RetryForGetConn(g) ==
    /\ getter[g] = "retry"
    /\ ~ChanFull
    /\ poolChan' = retry_send(poolChan, g)
    /\ getter' = [getter EXCEPT ![g] = "queued"]
    /\ UNCHANGED <<poolPermits, poolIdle, poolPutting, testOnCheckOut, poolDropping>>
    /\ UNCHANGED otherThanPool

\* Shared::make_new_connection, top of the loop: no permit available means
\* retry through the channel, otherwise go on to acquire one.
MakeCheck(g) ==
    /\ getter[g] = "make"
    /\ getter' = [getter EXCEPT ![g] = IF poolPermits = 0 THEN "retry" ELSE "acquire"]
    /\ UNCHANGED <<poolChan, poolPermits, poolIdle, poolPutting, testOnCheckOut, poolDropping>>
    /\ UNCHANGED otherThanPool

\* an acquisition that leaves the permit in the semaphore
AcquireKeepsPermit(permits) == permits

\* Semaphore::acquire_owned: completes only while a permit is available.
acquire_owned(permits) == permits - 1

MakeAcquire(g) ==
    /\ getter[g] = "acquire"
    /\ poolPermits > 0
    /\ poolPermits' = acquire_owned(poolPermits)
    /\ getter' = [getter EXCEPT ![g] = "connect"]
    /\ UNCHANGED <<poolChan, poolIdle, poolPutting, testOnCheckOut, poolDropping>>
    /\ UNCHANGED otherThanPool

\* manager.connect() under the permit: Ok sends the new Conn to the getter
\* (dropped if the getter has gone); Err leaves the permit without a
\* connection.
MakeConnect(g) ==
    /\ getter[g] = "connect"
    /\ \E connected \in BOOLEAN, received \in BOOLEAN :
          IF ~connected
          THEN getter' = [getter EXCEPT ![g] = "failed"] /\ UNCHANGED poolPermits
          ELSE IF received
          THEN getter' = [getter EXCEPT ![g] = "holding"] /\ UNCHANGED poolPermits
          ELSE /\ poolPermits' = poolPermits + 1
               /\ getter' = [getter EXCEPT ![g] = "idle"]
    /\ UNCHANGED <<poolChan, poolIdle, poolPutting, testOnCheckOut, poolDropping>>
    /\ UNCHANGED otherThanPool

\* make_new_connection after a failed connect: Err(Timeout) once past
\* connection_timeout, otherwise yield and loop; the permit of the failed
\* attempt is released either way.
MakeFailed(g) ==
    /\ getter[g] = "failed"
    /\ poolPermits' = poolPermits + 1
    /\ \E timed_out \in BOOLEAN :
          getter' = [getter EXCEPT ![g] = IF timed_out THEN "idle" ELSE "make"]
    /\ UNCHANGED <<poolChan, poolIdle, poolPutting, testOnCheckOut, poolDropping>>
    /\ UNCHANGED otherThanPool

\* Drop of a PooledConnection: PoolInner::put_back spawns the task that
\* will send PutConn.
PoolPutBack(g) ==
    /\ getter[g] = "holding"
    /\ getter' = [getter EXCEPT ![g] = "idle"]
    /\ poolPutting' = poolPutting + 1
    /\ UNCHANGED <<poolChan, poolPermits, poolIdle, testOnCheckOut, poolDropping>>
    /\ UNCHANGED otherThanPool

\* The task spawned by put_back gets its message into the channel.
PutBackSend ==
    /\ poolPutting > 0
    /\ ~ChanFull
    /\ poolChan' = Append(poolChan, PutConn)
    /\ poolPutting' = poolPutting - 1
    /\ UNCHANGED <<poolPermits, poolIdle, getter, testOnCheckOut, poolDropping>>
    /\ UNCHANGED otherThanPool

\* schedule_reaping / PoolInner::reap: a tick of the interval sends Reap.
ReapTick ==
    /\ ~ChanFull
    /\ poolChan' = Append(poolChan, Reap)
    /\ UNCHANGED <<poolPermits, poolIdle, getter, poolPutting, testOnCheckOut, poolDropping>>
    /\ UNCHANGED otherThanPool

\* SharedPool::channel with PoolInternals::default and Shared::new.
PoolInit ==
    /\ poolChan = <<>>
    /\ poolPermits = SemaphoreNew
    /\ poolIdle = <<>>
    /\ getter = [g \in Getters |-> "idle"]
    /\ poolPutting = 0
    /\ poolDropping = 0
    /\ testOnCheckOut \in BOOLEAN

PoolNext ==
    \/ RecvGetConn
    \/ RecvPutConn
    \/ RecvReap
    \/ PoolAge
    \/ PutBackSend
    \/ ReapTick
    \/ DropInvalid
    \/ \E g \in Getters :
          \/ PoolGet(g)
          \/ SendConnection(g)
          \/ RetryInvalid(g)
          \/ RetryForGetConn(g)
          \/ MakeCheck(g)
          \/ MakeAcquire(g)
          \/ MakeConnect(g)
          \/ MakeFailed(g)
          \/ PoolPutBack(g)

\* Connections alive: checked out, being checked out or created, idle in
\* the queue, or on their way back to the actor.
LiveConnections ==
    Cardinality({g \in Getters : getter[g] \in {"checkout", "invalid", "connect", "holding"}})
        + poolDropping
        + Len(poolIdle)
        + Len(SelectSeq(poolChan, LAMBDA m : m.type = "PutConn"))
        + poolPutting

(***************************************************************************)
(* Generic cache (libs/cache): the actor CacheInternal::run of             *)
(* internals.rs serving Get and Load messages, the loader tasks spawned by *)
(* CacheEntry::load and the waiter tasks spawned by wait_for_value.  A     *)
(* watch channel is modelled by the value sent on it, "unset" before the   *)
(* send.  Release build: the debug assertions are compiled out.            *)
(***************************************************************************)
\* the number of get calls over one behaviour
MaxGets == 4
\* inner.rs: mpsc::channel(128)
CacheChannelCap == 128
CacheKeys == {"ka"}
Policies == {"RefreshAfterAccess", "RefreshBeforeAccess"}
\* what loader.load returns: a value, or None when the load fails
LoadResults == {"None", "v1", "v2"}
\* the number of set and invalidate calls over one behaviour
MaxCacheWrites == 1
\* what callers store with set
SetValues == {"s1"}

\* CacheEntry::default
DefaultEntry == [value |-> "None", expire_at |-> "unset", watch_rx |-> 0, state |-> "Init"]

\* CacheEntry::new_with_expiry
new_with_expiry(value) ==
    [value |-> value, expire_at |-> "future", watch_rx |-> 0, state |-> "Valid"]

\* CacheEntry::is_expired
entry_is_expired(e) == e.state = "Expired" \/ e.expire_at = "past"

entry_is_refreshing(e) == e.state = "Refreshing"

entry_is_loading(e) == e.state = "Loading"

\* CacheInternal::load_entry: the state the entry takes when a load starts
load_entry(e) == [e EXCEPT !.state = IF e.state = "Init" THEN "Loading" ELSE "Refreshing"]

\* the loader calls in progress for key k
LoadsOutstanding(k) == {l \in cacheLoads : l.key = k}

\* the getter's oneshot receives value
Replied(g, value) == [cacheGets[g] EXCEPT !.pc = "done", !.reply = value]

\* CacheEntry::wait_for_value: a waiter task on the entry's watch channel,
\* or None at once when the entry has none
wait_for_value(e, g) ==
    IF e.watch_rx = 0 THEN Replied(g, "None")
    ELSE [cacheGets[g] EXCEPT !.pc = "waiting", !.watch = e.watch_rx]

\* Cache::get: send Get with a fresh oneshot.
CacheGet(k) ==
    /\ Len(cacheGets) < MaxGets
    /\ Len(cacheChan) < CacheChannelCap
    /\ cacheGets' = Append(cacheGets, [key |-> k, pc |-> "queued", watch |-> 0, reply |-> "-"])
    /\ cacheChan' = Append(cacheChan, [type |-> "Get", key |-> k, tx |-> Len(cacheGets) + 1,
                                       value |-> "-"])
    /\ UNCHANGED <<cachePolicy, cacheMap, cacheLoads, watchVal, cacheWrites>>
    /\ UNCHANGED otherThanCache

\* CacheInternal::run, Message::Get, with get_or_load_entry.
RecvGet ==
    /\ cacheChan # <<>> /\ Head(cacheChan).type = "Get"
    /\ cacheChan' = Tail(cacheChan)
    /\ LET k == Head(cacheChan).key
           g == Head(cacheChan).tx
           w == Len(watchVal) + 1
           e == IF k \in DOMAIN cacheMap THEN cacheMap[k] ELSE DefaultEntry
           \* init_watch, then load_entry and the spawned loader task
           loading == load_entry([e EXCEPT !.watch_rx = w])
           expiring == load_entry([e EXCEPT !.watch_rx = w, !.state = "Expired"])
           Put(entry) == [x \in DOMAIN cacheMap \cup {k} |->
                            IF x = k THEN entry ELSE cacheMap[x]]
           Spawn == /\ watchVal' = Append(watchVal, "unset")
                    /\ cacheLoads' = cacheLoads \cup {[key |-> k, watch |-> w]}
       IN  IF k \notin DOMAIN cacheMap
           THEN /\ cacheMap' = Put(loading)
                /\ Spawn
                /\ cacheGets' = [cacheGets EXCEPT ![g] = wait_for_value(loading, g)]
           ELSE IF entry_is_loading(e)
           THEN /\ cacheGets' = [cacheGets EXCEPT ![g] = wait_for_value(e, g)]
                /\ UNCHANGED <<cacheMap, cacheLoads, watchVal>>
           ELSE IF cachePolicy = "RefreshAfterAccess" /\ entry_is_expired(e)
           THEN /\ cacheMap' = Put(expiring)
                /\ Spawn
                /\ cacheGets' = [cacheGets EXCEPT ![g] = Replied(g, e.value)]
           ELSE IF cachePolicy = "RefreshAfterAccess"
           THEN /\ cacheGets' = [cacheGets EXCEPT ![g] = Replied(g, e.value)]
                /\ UNCHANGED <<cacheMap, cacheLoads, watchVal>>
           ELSE IF entry_is_refreshing(e)
           THEN /\ cacheGets' = [cacheGets EXCEPT ![g] = wait_for_value(e, g)]
                /\ UNCHANGED <<cacheMap, cacheLoads, watchVal>>
           ELSE IF entry_is_expired(e)
           THEN /\ cacheMap' = Put(expiring)
                /\ Spawn
                /\ cacheGets' = [cacheGets EXCEPT ![g] = wait_for_value(expiring, g)]
           ELSE /\ cacheGets' = [cacheGets EXCEPT ![g] = Replied(g, e.value)]
                /\ UNCHANGED <<cacheMap, cacheLoads, watchVal>>
    /\ UNCHANGED <<cachePolicy, cacheWrites>>
    /\ UNCHANGED otherThanCache

\* CacheEntry::load, the spawned task: loader.load returns and the result
\* is sent to the actor as Message::Load.
LoaderReturns ==
    /\ Len(cacheChan) < CacheChannelCap
    /\ \E l \in cacheLoads, value \in LoadResults :
          /\ cacheLoads' = cacheLoads \ {l}
          /\ cacheChan' = Append(cacheChan, [type |-> "Load", key |-> l.key, tx |-> l.watch,
                                             value |-> value])
    /\ UNCHANGED <<cachePolicy, cacheMap, cacheGets, watchVal, cacheWrites>>
    /\ UNCHANGED otherThanCache

\* CacheInternal::run, Message::Load: broadcast the value on the watch
\* channel and store a new entry, or broadcast None when the key has gone.
RecvLoad ==
    /\ cacheChan # <<>> /\ Head(cacheChan).type = "Load"
    /\ cacheChan' = Tail(cacheChan)
    /\ LET m == Head(cacheChan)
       IN  IF m.key \in DOMAIN cacheMap
           THEN /\ watchVal' = [watchVal EXCEPT ![m.tx] = m.value]
                /\ cacheMap' = [cacheMap EXCEPT ![m.key] = new_with_expiry(m.value)]
           ELSE /\ watchVal' = [watchVal EXCEPT ![m.tx] = "None"]
                /\ UNCHANGED cacheMap
    /\ UNCHANGED <<cachePolicy, cacheLoads, cacheGets, cacheWrites>>
    /\ UNCHANGED otherThanCache

\* The task spawned by wait_for_value: watch_rx.changed() completes and the
\* value borrowed from the channel goes to the getter.
WaiterWakes ==
    /\ \E g \in 1..Len(cacheGets) :
          /\ cacheGets[g].pc = "waiting"
          /\ watchVal[cacheGets[g].watch] # "unset"
          /\ cacheGets' = [cacheGets EXCEPT ![g] = Replied(g, watchVal[cacheGets[g].watch])]
    /\ UNCHANGED <<cachePolicy, cacheMap, cacheChan, cacheLoads, watchVal, cacheWrites>>
    /\ UNCHANGED otherThanCache

\* The clock passes an entry's expire_at.
CacheExpire ==
    /\ \E k \in DOMAIN cacheMap :
          /\ cacheMap[k].expire_at = "future"
          /\ cacheMap' = [cacheMap EXCEPT ![k].expire_at = "past"]
    /\ UNCHANGED <<cachePolicy, cacheChan, cacheLoads, cacheGets, watchVal, cacheWrites>>
    /\ UNCHANGED otherThanCache

\* Cache::set: send Set; nothing is awaited beyond the send.
CacheSet(k, v) ==
    /\ Len(cacheWrites) < MaxCacheWrites
    /\ Len(cacheChan) < CacheChannelCap
    /\ cacheWrites' = Append(cacheWrites, [op |-> "set", key |-> k, value |-> v, reply |-> "-"])
    /\ cacheChan' = Append(cacheChan, [type |-> "Set", key |-> k, tx |-> 0, value |-> v])
    /\ UNCHANGED <<cachePolicy, cacheMap, cacheLoads, cacheGets, watchVal>>
    /\ UNCHANGED otherThanCache

\* Cache::invalidate: send Remove with a fresh oneshot.
CacheInvalidate(k) ==
    /\ Len(cacheWrites) < MaxCacheWrites
    /\ Len(cacheChan) < CacheChannelCap
    /\ cacheWrites' = Append(cacheWrites, [op |-> "invalidate", key |-> k, value |-> "-",
                                           reply |-> "-"])
    /\ cacheChan' = Append(cacheChan, [type |-> "Remove", key |-> k,
                                       tx |-> Len(cacheWrites) + 1, value |-> "-"])
    /\ UNCHANGED <<cachePolicy, cacheMap, cacheLoads, cacheGets, watchVal>>
    /\ UNCHANGED otherThanCache

\* CacheInternal::run, Message::Set: insert a new entry over whatever the
\* key had.
RecvSet ==
    /\ cacheChan # <<>> /\ Head(cacheChan).type = "Set"
    /\ cacheChan' = Tail(cacheChan)
    /\ LET m == Head(cacheChan)
       IN  cacheMap' = [x \in DOMAIN cacheMap \cup {m.key} |->
                          IF x = m.key THEN new_with_expiry(m.value) ELSE cacheMap[x]]
    /\ UNCHANGED <<cachePolicy, cacheLoads, cacheGets, watchVal, cacheWrites>>
    /\ UNCHANGED otherThanCache

\* CacheInternal::run, Message::Remove: take the entry out of the map and
\* reply with the value it held.
RecvRemove ==
    /\ cacheChan # <<>> /\ Head(cacheChan).type = "Remove"
    /\ cacheChan' = Tail(cacheChan)
    /\ LET m == Head(cacheChan)
       IN  /\ cacheMap' = [x \in DOMAIN cacheMap \ {m.key} |-> cacheMap[x]]
           /\ cacheWrites' = [cacheWrites EXCEPT ![m.tx].reply =
                                 IF m.key \in DOMAIN cacheMap THEN cacheMap[m.key].value
                                 ELSE "None"]
    /\ UNCHANGED <<cachePolicy, cacheLoads, cacheGets, watchVal>>
    /\ UNCHANGED otherThanCache

\* CacheInternal::new: an empty map; the policy is the builder's.
CacheInit ==
    /\ cachePolicy \in Policies
    /\ cacheMap = <<>>
    /\ cacheChan = <<>>
    /\ cacheLoads = {}
    /\ cacheGets = <<>>
    /\ watchVal = <<>>
    /\ cacheWrites = <<>>

CacheNext ==
    \/ \E k \in CacheKeys : CacheGet(k)
    \/ RecvGet
    \/ LoaderReturns
    \/ RecvLoad
    \/ WaiterWakes
    \/ CacheExpire
    \/ \E k \in CacheKeys, v \in SetValues : CacheSet(k, v)
    \/ \E k \in CacheKeys : CacheInvalidate(k)
    \/ RecvSet
    \/ RecvRemove

(***************************************************************************)
(* Announce peer selection: ResponsePeersExtractor of worker/tasks/        *)
(* announce.rs driven by extract_peers_from_swarm of storage/memory.rs,    *)
(* all under the swarms read lock, so one request is one step.  A swarm    *)
(* table is the sequence of its keys; a peer's address family is fixed by  *)
(* its key.                                                                *)
(***************************************************************************)
\* the longest swarm table
MaxTableLen == 2
\* the largest announce time (seconds, the round-robin offset before mod)
MaxAnnounceTime == 1
\* config.default_numwant() and config.max_numwant()
DefaultNumwant == 1
MaxNumwant == 2
SwarmKeys == {"p1", "p2", "p3"}
PeerTypes == {"Leecher", "Seeder", "Partial"}
\* req.numwant absent (None)
NoNumwant == -1
\* req.numwant: absent, or a number up to one more than max_numwant
Numwants == {NoNumwant} \cup (0..(MaxNumwant + 1))

\* peer.is_ipv4() / peer.is_ipv6(): the family of the address the peer has
FamilyOf(k) == IF k = "p3" THEN "V6" ELSE "V4"

\* the PeerDicts of up to MaxTableLen distinct keys
Dicts ==
    {d \in UNION {[1..n -> SwarmKeys] : n \in 0..MaxTableLen} :
        \A i, j \in 1..Len(d) : i # j => d[i] # d[j]}

Min(a, b) == IF a <= b THEN a ELSE b

\* a cap that leaves out max_numwant
NumwantUncapped(req) == IF req.numwant = NoNumwant THEN DefaultNumwant ELSE req.numwant

\* ResponsePeersExtractor::new: the cap on the peers returned
numwant(req) ==
    Min(IF req.numwant = NoNumwant THEN DefaultNumwant ELSE req.numwant, MaxNumwant)

\* a cap test that lets one peer too many through
AtCapLate(peer_count, cap) == peer_count > cap

\* extract: `self.peer_count >= self.numwant`
AtCap(peer_count, cap) == peer_count >= cap

\* predicate without the comparison of keys
PredicateFamilyOnly(k, req) == FamilyOf(k) = req.sender_ip_type

\* ResponsePeersExtractor::predicate
predicate(k, req) ==
    IF FamilyOf(k) # req.sender_ip_type THEN FALSE
    ELSE IF k = req.peer_id_key THEN FALSE
    ELSE TRUE

\* PeersOutput::insert: pushes when the peer has an address of the sender's
\* family
peers_insert(k, req) == FamilyOf(k) = req.sender_ip_type

\* ResponsePeersExtractor::extract over the 1-based positions from..to of
\* peer_dict; peers is the output so far, cont the value returned.
RECURSIVE extract(_, _, _, _, _)
extract(peers, peer_dict, from, to, req) ==
    IF from > to THEN [peers |-> peers, cont |-> TRUE]
    ELSE IF AtCap(Len(peers), numwant(req)) THEN [peers |-> peers, cont |-> FALSE]
    ELSE IF ~predicate(peer_dict[from], req)
    THEN extract(peers, peer_dict, from + 1, to, req)
    ELSE IF peers_insert(peer_dict[from], req)
    THEN extract(Append(peers, peer_dict[from]), peer_dict, from + 1, to, req)
    ELSE extract(peers, peer_dict, from + 1, to, req)

\* usize::MAX, cut down to 31 bits; all that is used of it is that it
\* exceeds every table length
UsizeMax == 2147483647

\* usize subtraction as the release build computes it: it wraps around
usize_sub(a, b) == IF a >= b THEN a - b ELSE UsizeMax - (b - a) + 1

\* a process that always starts at the head of the table
ProcessFromHead(peers, peer_dict, req) ==
    extract(peers, peer_dict, 1, Len(peer_dict), req)

\* a process that stops at the end of the table instead of wrapping around
ProcessNoWrap(peers, peer_dict, req) ==
    LET total_peers == Len(peer_dict)
    IN  IF usize_sub(numwant(req), Len(peers)) >= total_peers
        THEN extract(peers, peer_dict, 1, total_peers, req)
        ELSE extract(peers, peer_dict, (req.announce_time % total_peers) + 1,
                     total_peers, req)

\* ResponsePeersExtractor::process: everything when it fits, otherwise
\* from the round-robin offset to the end and then from the start.
process(peers, peer_dict, req) ==
    LET total_peers == Len(peer_dict)
    IN  IF usize_sub(numwant(req), Len(peers)) >= total_peers
        THEN extract(peers, peer_dict, 1, total_peers, req)
        ELSE LET start == req.announce_time % total_peers
                 first == extract(peers, peer_dict, start + 1, total_peers, req)
             IN  IF first.cont
                 THEN extract(first.peers, peer_dict, 1, start, req)
                 ELSE first

\* an extraction that offers seeders and leechers to every requester
ExtractSeedersToAll(req) ==
    LET a == process(<<>>, req.seeders, req)
    IN  IF ~a.cont THEN a.peers ELSE process(a.peers, req.leechers, req).peers

\* extract_peers_from_swarm with process_peers!: a leecher is offered
\* seeders, leechers, partial_seeds in that order, anyone else leechers
\* only; the first process returning false ends it.
extract_peers_from_swarm(req) ==
    IF req.peer_type = "Leecher"
    THEN LET a == process(<<>>, req.seeders, req)
         IN  IF ~a.cont THEN a.peers
             ELSE LET b == process(a.peers, req.leechers, req)
                  IN  IF ~b.cont THEN b.peers
                      ELSE process(b.peers, req.partial_seeds, req).peers
    ELSE process(<<>>, req.leechers, req).peers

\* the announces (with the swarm each meets) a response is computed for
Requests ==
    [seeders : Dicts, leechers : Dicts, partial_seeds : Dicts,
     numwant : Numwants, announce_time : 0..MaxAnnounceTime,
     peer_type : PeerTypes, peer_id_key : SwarmKeys, sender_ip_type : Families]

NoRequest ==
    [seeders |-> <<>>, leechers |-> <<>>, partial_seeds |-> <<>>,
     numwant |-> NoNumwant, announce_time |-> 0,
     peer_type |-> "Seeder", peer_id_key |-> "p1", sender_ip_type |-> "V4"]

\* execute, lines 107-127: build the extractor, run it over the swarm and
\* take its output.
ExtractPeers ==
    /\ exPc = "new"
    /\ exPeers' = extract_peers_from_swarm(exReq)
    /\ exPc' = "done"
    /\ UNCHANGED exReq
    /\ UNCHANGED otherThanExtract

\* no announce being answered
ExtractIdle == exReq = NoRequest /\ exPeers = <<>> /\ exPc = "idle"

\* an announce about to be answered
ExtractInit == exReq \in Requests /\ exPeers = <<>> /\ exPc = "new"

ExtractNext == ExtractPeers

(***************************************************************************)
(* Worker (worker/mod.rs): Worker::work on the client side, the            *)
(* WorkerLoop::run actor and the handler tasks spawned by                  *)
(* Executor::execute.  Each packet carries the sender of its own oneshot   *)
(* reply channel; the model counts the messages sent on it.                *)
(***************************************************************************)
\* the number of packets offered to the Worker over one behaviour
MaxPackets == 4
\* WORKER_POOL_SIZE, the capacity of the Worker channel
WORKER_POOL_SIZE == 10000
TaskKinds == {"Announce", "Scrape", "FullScrape", "UpdateState", "Shutdown"}
HandlerKinds == {"Announce", "Scrape", "FullScrape"}

\* a reply that never reaches the channel
ReplyLost(replies) == replies

\* oneshot::Sender::send: one more message on the reply channel
send_reply(replies) == replies + 1

\* the packet has not been handed a clone of the loop's state
NoState == -1

\* an UpdateState that leaves the loop's state as it was
UpdateStateIgnored(old, new) == old

\* Task::UpdateState(state): self.state = state
update_state(old, new) == new

\* Worker::work (and Drop for Shutdown): the packet enters the channel, or
\* the send fails because the receiver has closed it.
Work(kind) ==
    /\ Len(wkPackets) < MaxPackets
    /\ Len(wkChan) < WORKER_POOL_SIZE
    /\ IF wkClosed
       THEN /\ wkPackets' = Append(wkPackets, [kind |-> kind, pc |-> "rejected", replies |-> 0,
                                                state |-> NoState])
            /\ UNCHANGED wkChan
       ELSE /\ wkPackets' = Append(wkPackets, [kind |-> kind, pc |-> "queued", replies |-> 0,
                                                state |-> NoState])
            /\ wkChan' = Append(wkChan, Len(wkPackets) + 1)
    /\ UNCHANGED <<wkClosed, wkStateVersion>>
    /\ UNCHANGED otherThanWorker

\* WorkerLoop::run, one iteration: recv yields the oldest buffered packet,
\* also after close.  Announce, Scrape and FullScrape spawn their handler
\* with self.state.clone(); UpdateState and Shutdown are answered by the loop
\* itself.  The state an UpdateState packet carries is named by the packet's
\* number.
WorkerRecv ==
    /\ UNCHANGED otherThanWorker
    /\ wkChan # <<>>
    /\ wkChan' = Tail(wkChan)
    /\ LET i == Head(wkChan)
           kind == wkPackets[i].kind
       IN  IF kind \in HandlerKinds
           THEN /\ wkPackets' = [wkPackets EXCEPT ![i].pc = "running",
                                                  ![i].state = wkStateVersion]
                /\ UNCHANGED <<wkClosed, wkStateVersion>>
           ELSE IF kind = "UpdateState"
           THEN /\ wkStateVersion' = update_state(wkStateVersion, i)
                /\ wkPackets' = [wkPackets EXCEPT ![i].pc = "replied",
                                                  ![i].replies = send_reply(@)]
                /\ UNCHANGED wkClosed
           ELSE /\ wkClosed' = TRUE
                /\ wkPackets' = [wkPackets EXCEPT ![i].pc = "replied",
                                                  ![i].replies = send_reply(@)]
                /\ UNCHANGED wkStateVersion

\* Executor::execute, the spawned task: the handler returns Ok or Err and
\* the result is sent on the packet's reply channel.
HandlerFinish ==
    /\ \E i \in 1..Len(wkPackets), response \in {"Ok", "Err"} :
          /\ wkPackets[i].pc = "running"
          /\ wkPackets' = [wkPackets EXCEPT ![i].pc = response,
                                            ![i].replies = send_reply(@)]
    /\ UNCHANGED <<wkChan, wkClosed, wkStateVersion>>
    /\ UNCHANGED otherThanWorker

\* Worker::new and Worker::start: an empty open channel.
WorkerInit ==
    /\ wkPackets = <<>>
    /\ wkChan = <<>>
    /\ wkClosed = FALSE
    /\ wkStateVersion = 0

WorkerNext ==
    \/ \E kind \in TaskKinds : Work(kind)
    \/ WorkerRecv
    \/ HandlerFinish


(***************************************************************************)
(* The announce response (announce.rs, lines 100-147): a Stopped announce  *)
(* answers without peers or counts; any other announce joins               *)
(* get_torrent_stats, whose counts go into the response, with              *)
(* extract_peers_from_swarm, whose own SwarmStats are discarded.  Each of  *)
(* the two takes the swarms read lock for itself; get_torrent_stats is     *)
(* polled first.                                                           *)
(***************************************************************************)
\* TorrentSwarm::complete_count
complete_count(s) == Len(s.seeders)

\* TorrentSwarm::incomplete_count
incomplete_count(s) == Len(s.leechers) + Len(s.partial_seeds)

NoResponse == [pc |-> "none", complete |-> 0, incomplete |-> 0]

\* the swarm of the announce in slot t, if there is one
HasSwarm(t) == <<task[t].ih, task[t].fam>> \in DOMAIN swarms
SwarmOf(t) == swarms[<<task[t].ih, task[t].fam>>]

\* event Stopped: peers and peers6 stay None, the counts stay 0.
RespondStopped(t) ==
    /\ task[t].pc = "respond"
    /\ task[t].event = "Stopped"
    /\ resp' = [resp EXCEPT ![t] = [NoResponse EXCEPT !.pc = "nopeers"]]
    /\ task' = [task EXCEPT ![t] = Finished("done", "none")]
    /\ UNCHANGED <<torrents, swarms, issued, autoRegister, nLeechIns, nIncr>>
    /\ UNCHANGED otherThanStore

\* get_torrent_stats: the counts of the swarm under its own read lock,
\* 0 and 0 when there is no swarm.
RespondStats(t) ==
    /\ task[t].pc = "respond"
    /\ task[t].event # "Stopped"
    /\ resp[t].pc # "stats"
    /\ resp' = [resp EXCEPT ![t] =
                  IF HasSwarm(t)
                  THEN [pc |-> "stats", complete |-> complete_count(SwarmOf(t)),
                        incomplete |-> incomplete_count(SwarmOf(t))]
                  ELSE [NoResponse EXCEPT !.pc = "stats"]]
    /\ UNCHANGED <<torrents, swarms, task, issued, autoRegister, nLeechIns, nIncr>>
    /\ UNCHANGED otherThanStore

\* extract_peers_from_swarm under the swarms read lock, then the response
\* with the counts taken before.
RespondPeers(t) ==
    /\ task[t].pc = "respond"
    /\ resp[t].pc = "stats"
    /\ resp' = [resp EXCEPT ![t].pc = "sent"]
    /\ task' = [task EXCEPT ![t] = Finished("done", "none")]
    /\ UNCHANGED <<torrents, swarms, issued, autoRegister, nLeechIns, nIncr>>
    /\ UNCHANGED otherThanStore

ResponseInit == resp = [t \in Tasks |-> NoResponse]

AnnounceNext ==
    \E t \in Tasks :
        \/ AnnounceBegin(t)
        \/ AnnounceHas(t)
        \/ AnnounceInsert(t)
        \/ AnnounceEvent(t)
        \/ AnnounceIncr(t)
        \/ RespondStopped(t)
        \/ RespondStats(t)
        \/ RespondPeers(t)

(***************************************************************************)
(* One TorrentSwarm under any sequence of its own operations, each applied  *)
(* by a holder of the swarms write lock.                                    *)
(***************************************************************************)
MaxSwarmOps == 4

\* TorrentSwarm::insert_peer (put_peer_in_swarm)
SwarmInsertPeer(k, peer_type) ==
    /\ swarmOps < MaxSwarmOps
    /\ oneSwarm' = insert_peer(oneSwarm, k, peer_type)
    /\ swarmOps' = swarmOps + 1
    /\ UNCHANGED otherThanTable

\* TorrentSwarm::update_or_insert_peer
SwarmUpdateOrInsertPeer(k, peer_type) ==
    /\ swarmOps < MaxSwarmOps
    /\ oneSwarm' = update_or_insert_peer(oneSwarm, k, peer_type)
    /\ swarmOps' = swarmOps + 1
    /\ UNCHANGED otherThanTable

\* TorrentSwarm::promote_peer
SwarmPromotePeer(k) ==
    /\ swarmOps < MaxSwarmOps
    /\ oneSwarm' = promote_peer(oneSwarm, k)
    /\ swarmOps' = swarmOps + 1
    /\ UNCHANGED otherThanTable

\* TorrentSwarm::remove_peer
SwarmRemovePeer(k, peer_type) ==
    /\ swarmOps < MaxSwarmOps
    /\ oneSwarm' = remove_peer(oneSwarm, k, peer_type)
    /\ swarmOps' = swarmOps + 1
    /\ UNCHANGED otherThanTable

SwarmInit ==
    /\ oneSwarm = EmptySwarm
    /\ swarmOps = 0

SwarmNext ==
    \E k \in SwarmKeys, peer_type \in PeerTypes :
        \/ SwarmInsertPeer(k, peer_type)
        \/ SwarmUpdateOrInsertPeer(k, peer_type)
        \/ SwarmPromotePeer(k)
        \/ SwarmRemovePeer(k, peer_type)

(***************************************************************************)
(* The Worker loop's end: recv() returns None once the channel is closed    *)
(* and empty, and run() returns.                                            *)
(***************************************************************************)
\* a closed channel that never reports its end
RecvNoneNever(chan, closed) == FALSE

\* mpsc::Receiver::recv returns None
recv_none(chan, closed) == closed /\ chan = <<>>

\* while let Some(packet) = self.receiver.recv().await { .. } ends
WorkerStop ==
    /\ ~wkStopped
    /\ recv_none(wkChan, wkClosed)
    /\ wkStopped' = TRUE
    /\ UNCHANGED otherThanLoop

LoopInit == wkStopped = FALSE

(***************************************************************************)
(* What the HTTP client gets for an announce the Worker answered with an    *)
(* error (servers/http/handler.rs, servers/http/error.rs, worker/error.rs). *)
(***************************************************************************)
INTERNAL_SERVER_ERROR == "An Error Occurred, Please Try Again!"

\* tasks::err(msg): From<&'static str> for worker::Error
WorkerErrorFrom(msg) == [kind |-> "Custom", msg |-> msg]

\* worker::Error::description, which Display writes
description(e) ==
    CASE e.kind = "Send"    -> "failed to send message to task handler"
      [] e.kind = "Recv"    -> "failed to receive message from worker"
      [] e.kind = "Storage" -> "storage error"
      [] OTHER              -> e.msg

\* From<worker::Error> for HttpError, applied by `?` in announce()
HttpErrorFrom(e) == [variant |-> "Other", cause |-> e]

\* Display for HttpError
to_string(h) ==
    CASE h.variant = "NotFound"       -> "Not Found"
      [] h.variant = "RequestTimeout" -> "Request Timeout"
      [] h.variant = "Unauthorized"   -> "Unauthorized"
      [] h.variant = "BadRequest"     -> description(h.cause)
      [] OTHER                        -> INTERNAL_SERVER_ERROR

\* From<String> for TrackerError and its bencoding: a dictionary with the
\* one key "failure reason"
TrackerErrorFrom(reason) == [failure_reason |-> reason]

\* convert_to_tracker_response
convert_to_tracker_response(h) == TrackerErrorFrom(to_string(h))

\* the body of the HTTP reply to an announce whose handler returned err(msg)
AnnounceFailureBody(msg) == convert_to_tracker_response(HttpErrorFrom(WorkerErrorFrom(msg)))

(***************************************************************************)
(* The locks of the in-memory store (storage/memory.rs): every shard has a  *)
(* tokio RwLock around its torrents map and one around its swarms map.  An  *)
(* operation is the sequence of guards it takes and drops; a guard lives to *)
(* the end of the statement, block or `if` condition that created it.       *)
(* tokio's RwLock serves its waiters in the order they came.                *)
(***************************************************************************)
MaxStoreOps == 3
Shards == <<"s1", "s2">>
ShardSet == {Shards[i] : i \in 1..Len(Shards)}
StoreLocks == {"torrents", "swarms"} \X ShardSet
OpSlots == {"o1", "o2"}
OpKinds == {"insert_torrent", "has_torrent", "remove_torrent", "get_torrent_stats",
            "get_multi_torrent_stats", "get_all_torrent_stats", "put_peer_in_swarm",
            "promote_peer_in_swarm", "extract_peers_from_swarm", "remove_peer_from_swarm"}

Acquire(map, sh, mode) == [op |-> "acquire", lock |-> <<map, sh>>, mode |-> mode]
Release(map, sh) == [op |-> "release", lock |-> <<map, sh>>]

\* one guard taken and dropped
Section(map, sh, mode) == <<Acquire(map, sh, mode), Release(map, sh)>>

\* a promotion that keeps its swarms guard while it updates the torrent
PromoteKeepsSwarmGuard(sh) ==
    <<Acquire("swarms", sh, "write"), Acquire("torrents", sh, "write"),
      Release("torrents", sh), Release("swarms", sh)>>

\* promote_peer_in_swarm, a promotion that happened: the swarms write guard
\* is a temporary of the `if` condition, the torrents write guard one of the
\* statement in its body
promote_peer_in_swarm_guards(sh) ==
    Section("swarms", sh, "write") \o Section("torrents", sh, "write")

\* get_torrent_stats: torrents read guard in one statement, swarms read
\* guard in the next
get_torrent_stats_guards(sh) ==
    Section("torrents", sh, "read") \o Section("swarms", sh, "read")

\* get_all_torrent_stats: per shard, the torrents read guard inside a block,
\* then the swarms read guard to the end of the loop body
RECURSIVE get_all_torrent_stats_guards(_)
get_all_torrent_stats_guards(i) ==
    IF i > Len(Shards) THEN <<>>
    ELSE Section("torrents", Shards[i], "read") \o Section("swarms", Shards[i], "read")
            \o get_all_torrent_stats_guards(i + 1)

\* the guards an operation takes and drops, for an infohash of shard sh
Guards(kind, sh) ==
    CASE kind = "insert_torrent" -> Section("torrents", sh, "write")
      [] kind = "has_torrent" -> Section("torrents", sh, "read")
      [] kind = "remove_torrent" ->
            Section("swarms", sh, "write") \o Section("torrents", sh, "write")
      [] kind = "get_torrent_stats" -> get_torrent_stats_guards(sh)
      [] kind = "get_multi_torrent_stats" ->
            \* info_hashes: one of shard sh, then one of each other shard
            get_torrent_stats_guards(sh)
               \o get_torrent_stats_guards(CHOOSE o \in ShardSet : o # sh)
      [] kind = "get_all_torrent_stats" -> get_all_torrent_stats_guards(1)
      [] kind = "put_peer_in_swarm" -> Section("swarms", sh, "write")
      [] kind = "promote_peer_in_swarm" -> promote_peer_in_swarm_guards(sh)
      [] kind = "extract_peers_from_swarm" -> Section("swarms", sh, "read")
      [] OTHER -> Section("swarms", sh, "write")

NoOp == [kind |-> "none", sh |-> Shards[1], pc |-> 1, waiting |-> FALSE]

\* the instruction an operation slot is at
Instr(p) == Guards(lkProc[p].kind, lkProc[p].sh)[lkProc[p].pc]

Running(p) == lkProc[p].kind # "none"

\* a storage operation is called
OpStart(p, kind, sh) ==
    /\ ~Running(p)
    /\ lkStarted < MaxStoreOps
    /\ lkProc' = [lkProc EXCEPT ![p] = [kind |-> kind, sh |-> sh, pc |-> 1, waiting |-> FALSE]]
    /\ lkStarted' = lkStarted + 1
    /\ UNCHANGED <<lkHolders, lkQueue>>
    /\ UNCHANGED otherThanLocks

\* lock.read().await / lock.write().await is polled: the request joins the
\* lock's queue
OpRequest(p) ==
    /\ Running(p) /\ ~lkProc[p].waiting
    /\ Instr(p).op = "acquire"
    /\ lkQueue' = [lkQueue EXCEPT ![Instr(p).lock] = Append(@, <<p, Instr(p).mode>>)]
    /\ lkProc' = [lkProc EXCEPT ![p].waiting = TRUE]
    /\ UNCHANGED <<lkHolders, lkStarted>>
    /\ UNCHANGED otherThanLocks

\* RwLock: the oldest waiter gets its guard, a reader when no write guard is
\* out, a writer when no guard is out
Grant(l) ==
    /\ lkQueue[l] # <<>>
    /\ LET p == Head(lkQueue[l])[1]
           mode == Head(lkQueue[l])[2]
       IN  /\ IF mode = "write" THEN lkHolders[l] = {}
              ELSE \A h \in lkHolders[l] : h[2] = "read"
           /\ lkHolders' = [lkHolders EXCEPT ![l] = @ \cup {<<p, mode>>}]
           /\ lkProc' = [lkProc EXCEPT ![p].waiting = FALSE, ![p].pc = @ + 1]
    /\ lkQueue' = [lkQueue EXCEPT ![l] = Tail(@)]
    /\ UNCHANGED lkStarted
    /\ UNCHANGED otherThanLocks

\* a guard is dropped; after its last guard the operation returns
OpRelease(p) ==
    /\ Running(p)
    /\ Instr(p).op = "release"
    /\ lkHolders' = [lkHolders EXCEPT ![Instr(p).lock] = {h \in @ : h[1] # p}]
    /\ lkProc' = [lkProc EXCEPT ![p] =
                    IF lkProc[p].pc = Len(Guards(lkProc[p].kind, lkProc[p].sh))
                    THEN NoOp ELSE [@ EXCEPT !.pc = @ + 1]]
    /\ UNCHANGED <<lkQueue, lkStarted>>
    /\ UNCHANGED otherThanLocks

\* MemoryStorage::new: no guard out
LocksInit ==
    /\ lkHolders = [l \in StoreLocks |-> {}]
    /\ lkQueue = [l \in StoreLocks |-> <<>>]
    /\ lkProc = [p \in OpSlots |-> NoOp]
    /\ lkStarted = 0

LocksNext ==
    \/ \E p \in OpSlots, kind \in OpKinds, sh \in ShardSet : OpStart(p, kind, sh)
    \/ \E p \in OpSlots : OpRequest(p) \/ OpRelease(p)
    \/ \E l \in StoreLocks : Grant(l)

(***************************************************************************)
(* Shared<T> (libs/utils/src/shared.rs): one heap allocation with an       *)
(* AtomicU8 reference counter, its handles cloned and dropped in any       *)
(* order.  Once the allocation is freed while handles remain, its memory   *)
(* holds any byte where the counter was, and the remaining handles go on   *)
(* counting on that byte.                                                  *)
(***************************************************************************)
\* the most handles followed
MaxHandles == 257
\* const MAX_REFCOUNT: u8 = u8::MAX
MAX_REFCOUNT == 255
\* the values of an AtomicU8
U8Modulus == 256

\* AtomicU8::fetch_add(1): wraps around
fetch_add(c) == (c + 1) % U8Modulus

\* AtomicU8::fetch_sub(1): wraps around
fetch_sub(c) == (c + U8Modulus - 1) % U8Modulus

\* Clone for Shared: fetch_add, and drop_and_panic when the old count is
\* above MAX_REFCOUNT (the handle made for the drop is dropped again, no
\* clone is returned).
SharedClone ==
    /\ shLive >= 1
    /\ shLive < MaxHandles
    /\ LET old_size == shCounter
       IN  IF old_size > MAX_REFCOUNT
           THEN /\ shCounter' = fetch_sub(fetch_add(shCounter))
                /\ UNCHANGED shLive
           ELSE /\ shCounter' = fetch_add(shCounter)
                /\ shLive' = shLive + 1
    /\ UNCHANGED shFreed
    /\ UNCHANGED otherThanShared

\* Drop for Shared: fetch_sub, and drop_slow when the old count was 1.
SharedDrop ==
    /\ shLive >= 1
    /\ shLive' = shLive - 1
    /\ shFreed' = (shFreed \/ shCounter = 1)
    /\ IF ~shFreed /\ shCounter = 1 /\ shLive > 1
       THEN shCounter' \in 0..MAX_REFCOUNT
       ELSE shCounter' = fetch_sub(shCounter)
    /\ UNCHANGED otherThanShared

\* Shared::new: one handle, counter 1
SharedInit ==
    /\ shCounter = 1
    /\ shLive = 1
    /\ shFreed = FALSE

SharedNext == SharedClone \/ SharedDrop

(***************************************************************************)
(* Specifications.                                                         *)
(***************************************************************************)
vars == <<storeVars, fsVars, poolVars, cacheVars, extractVars, workerVars, respVars, tableVars, loopVars, lockVars, sharedVars>>

Init ==
    /\ StoreInit /\ FsInit /\ PoolInit /\ CacheInit /\ ExtractIdle /\ WorkerInit
    /\ ResponseInit /\ SwarmInit /\ LoopInit /\ LocksInit /\ SharedInit

\* one configuration of each subsystem, for the specifications of the others
StoreConfigured == torrents = <<>> /\ autoRegister = TRUE
PoolConfigured == testOnCheckOut = TRUE
CacheConfigured == cachePolicy = "RefreshAfterAccess"

\* one Shared value under clones and drops
InitShared == Init /\ StoreConfigured /\ PoolConfigured /\ CacheConfigured
SpecShared == InitShared /\ [][SharedNext]_vars

\* the swarm store under concurrent announce handlers
InitStore == Init /\ PoolConfigured /\ CacheConfigured
SpecStore == InitStore /\ [][StoreNext]_vars

\* the full-scrape cache under concurrent readers and refresh tasks
InitFullScrape == Init /\ StoreConfigured /\ PoolConfigured /\ CacheConfigured
SpecFullScrape == InitFullScrape /\ [][FsNext]_vars

\* A spawned refresh task is scheduled by the runtime, worker.work() returns
\* (with the output, or with an error when the Worker channel is closed or
\* the task fails), and the entry's RwLock is granted to a waiting writer.
\* Nothing obliges a client to read or the clock to pass the expiry.
FullScrapeFairness ==
    \A r \in RefreshTasks :
        WF_vars(RefreshBegin(r)) /\ WF_vars(RefreshWork(r)) /\ WF_vars(RefreshWrite(r))
SpecFullScrapeLive == InitFullScrape /\ [][FsNext]_vars /\ FullScrapeFairness

\* the connection pool: actor, spawned tasks and clients
InitPool == Init /\ StoreConfigured /\ CacheConfigured
SpecPool == InitPool /\ [][PoolNext]_vars

\* the generic cache: actor, loader tasks, waiter tasks and clients
InitCache == Init /\ StoreConfigured /\ PoolConfigured
SpecCache == InitCache /\ [][CacheNext]_vars

\* the peer selection of one announce, over all announces and swarms
InitExtract ==
    /\ StoreInit /\ StoreConfigured
    /\ FsInit
    /\ PoolInit /\ PoolConfigured
    /\ CacheInit /\ CacheConfigured
    /\ ExtractInit
    /\ WorkerInit
    /\ ResponseInit
    /\ SwarmInit
    /\ LoopInit
    /\ LocksInit
    /\ SharedInit
SpecExtract == InitExtract /\ [][ExtractNext]_vars

\* the Worker: clients, loop and handler tasks
InitWorker == Init /\ StoreConfigured /\ PoolConfigured /\ CacheConfigured
SpecWorker == InitWorker /\ [][WorkerNext]_vars

\* one swarm's peer tables under sequences of TorrentSwarm operations
InitSwarm == Init /\ StoreConfigured /\ PoolConfigured /\ CacheConfigured
SpecSwarm == InitSwarm /\ [][SwarmNext]_vars

\* the Worker to the end of its loop, where the loop task and the spawned
\* handler tasks keep being polled by the runtime; clients call as they please
WorkerLiveNext == WorkerNext \/ WorkerStop
WorkerFairness ==
    /\ WF_vars(WorkerRecv)
    /\ WF_vars(HandlerFinish)
    /\ WF_vars(WorkerStop)
SpecWorkerLive == InitWorker /\ [][WorkerLiveNext]_vars /\ WorkerFairness

\* the store's locks under concurrent storage operations, each of which
\* keeps being polled, with locks that keep serving their queues
LocksFairness ==
    /\ \A p \in OpSlots : WF_vars(OpRequest(p)) /\ WF_vars(OpRelease(p))
    /\ \A l \in StoreLocks : WF_vars(Grant(l))
InitLocks == Init /\ StoreConfigured /\ PoolConfigured /\ CacheConfigured
SpecLocks == InitLocks /\ [][LocksNext]_vars /\ LocksFairness

\* the connection pool where the actor and every spawned task keep running:
\* a step of theirs that stays possible is taken; clients get and return
\* connections, and the reaper ticks, as they please.  The send of a retried
\* request waits in the channel's queue of senders, which hands out freed
\* capacity in order of arrival, so it is not passed over for ever.
PoolFairness ==
    /\ WF_vars(RecvGetConn) /\ WF_vars(RecvPutConn) /\ WF_vars(RecvReap)
    /\ WF_vars(PutBackSend) /\ WF_vars(DropInvalid)
    /\ \A g \in Getters :
          /\ WF_vars(SendConnection(g)) /\ WF_vars(RetryForGetConn(g))
          /\ SF_vars(RetryInvalid(g))
          /\ WF_vars(MakeCheck(g)) /\ WF_vars(MakeAcquire(g))
          /\ WF_vars(MakeConnect(g)) /\ WF_vars(MakeFailed(g))
SpecPoolLive == InitPool /\ [][PoolNext]_vars /\ PoolFairness

\* the same pool with queues that serve in order of arrival: no sender
\* waiting for room in the channel, and no task waiting in acquire_owned for
\* a permit, is passed over for ever
PoolQueueFairness ==
    /\ WF_vars(RecvGetConn) /\ WF_vars(RecvPutConn) /\ WF_vars(RecvReap)
    /\ SF_vars(PutBackSend) /\ WF_vars(DropInvalid)
    /\ \A g \in Getters :
          /\ WF_vars(SendConnection(g)) /\ SF_vars(RetryForGetConn(g))
          /\ SF_vars(RetryInvalid(g))
          /\ WF_vars(MakeCheck(g)) /\ SF_vars(MakeAcquire(g))
          /\ WF_vars(MakeConnect(g)) /\ WF_vars(MakeFailed(g))
SpecPoolQueues == InitPool /\ [][PoolNext]_vars /\ PoolQueueFairness

\* the announce handlers with the response built in its two lock sections
InitAnnounce == Init /\ StoreConfigured /\ PoolConfigured /\ CacheConfigured
SpecAnnounce == InitAnnounce /\ [][AnnounceNext]_vars

(***************************************************************************)
(* Claims about the swarm store.                                           *)
(***************************************************************************)
TablesHolding(s, k) ==
    (IF Has(s.seeders, k) THEN 1 ELSE 0) + (IF Has(s.leechers, k) THEN 1 ELSE 0)
        + (IF Has(s.partial_seeds, k) THEN 1 ELSE 0)

\* C1: in every swarm, every PeerIdKey is a key of at most one of seeders,
\* leechers and partial_seeds.
C1_OneTablePerKey ==
    \A x \in DOMAIN swarms : \A k \in PeerIdKeys : TablesHolding(swarms[x], k) <= 1

\* the handler in slot t takes its step from pc
Steps(t, pc) == task[t].pc = pc /\ task'[t].pc # pc

\* C2: a Completed announce whose key is in leechers moves the key to seeders
\* and goes on to raise the completed counter by exactly 1; one whose key is
\* not in leechers changes neither the swarm nor the counter; the counter
\* rises only by such an increment; and increments never outnumber the
\* insertions into leechers, so two Completed announces racing for one
\* leecher entry raise the counter once.
C2_CompletedPromotes ==
    /\ [][\A t \in Tasks :
            Steps(t, "event") /\ task[t].event = "Completed" /\ task[t].left = 0 =>
                LET r == task[t]
                    s == get_mut_or_insert_swarm(swarms, r.ih, r.fam)
                    s2 == swarms'[<<r.ih, r.fam>>]
                IN  /\ torrents' = torrents
                    /\ IF Has(s.leechers, r.key)
                       THEN /\ Has(s2.seeders, r.key)
                            /\ ~Has(s2.leechers, r.key)
                            /\ task'[t].pc = "incr"
                       ELSE /\ s2 = s
                            /\ task'[t].pc = "respond"]_vars
    /\ [][\A t \in Tasks :
            Steps(t, "incr") =>
                torrents'[task[t].ih] = torrents[task[t].ih] + 1]_vars
    /\ [][\A ih \in DOMAIN torrents :
            torrents'[ih] > torrents[ih] =>
                /\ torrents'[ih] = torrents[ih] + 1
                /\ \E t \in Tasks : Steps(t, "incr") /\ task[t].ih = ih
                                    /\ task[t].promoted]_vars
    /\ [](nIncr + Cardinality({t \in Tasks : task[t].pc = "incr"}) <= nLeechIns)

\* two Completed announces for one key overlap: the first has moved the key and
\* is about to count it, the second found no leecher entry
C2_Witness ==
    \E t1, t2 \in Tasks :
        /\ t1 # t2
        /\ task[t1].event = "Completed" /\ task[t2].event = "Completed"
        /\ task[t1].key = task[t2].key /\ task[t1].fam = task[t2].fam
        /\ task[t1].pc = "incr" /\ task[t1].promoted
        /\ task[t2].pc = "respond" /\ ~task[t2].promoted
        /\ Has(swarms[<<task[t1].ih, task[t1].fam>>].seeders, task[t1].key)
        /\ ~Has(swarms[<<task[t1].ih, task[t1].fam>>].leechers, task[t1].key)

\* C3: the completed counter of an infohash never decreases.
C3_CompletedMonotone ==
    [][\A ih \in DOMAIN torrents :
         ih \in DOMAIN torrents' /\ torrents'[ih] >= torrents[ih]]_vars

\* C10: insert_torrent for an infohash that is already present leaves the
\* stored torrent record unchanged.
C10_InsertKeepsPresent ==
    [][\A t \in Tasks :
         Steps(t, "insert") /\ has_torrent(torrents, task[t].ih) =>
             torrents' = torrents]_vars

(***************************************************************************)
(* Claims about the full-scrape cache.                                     *)
(***************************************************************************)
\* C4: at any time at most one full-scrape refresh is in flight, that is,
\* has set the refreshing flag and not yet written its payload back, whether
\* the cache holds no payload yet or an expired one.
C4_SingleFlightRefresh == Cardinality({r \in RefreshTasks : InFlight(r)}) <= 1

ReadStep ==
    /\ UNCHANGED <<fsData, fsExpires, fsRefreshing>>
    /\ fsReply' # fsReply \/ fsSpawned' # fsSpawned

\* C23: every read, also while the entry is expired or being refreshed, is
\* answered with the payload the entry holds, which is the last one a refresh
\* wrote, and with the default scrape response when it holds none; nothing
\* else is ever returned.
C23_StaleOrDefault ==
    /\ [][ReadStep => fsReply' = IF fsData = "None" THEN "Default" ELSE fsData]_vars
    /\ [][fsData' # fsData =>
            \E r \in RefreshTasks : fsTask[r] \in Payloads /\ fsData' = fsTask[r]]_vars
    /\ [](fsReply \in {"NoReply", "Default"} \cup Payloads)

\* the payload of a failed refresh has expired and is being refreshed, and
\* the last reader was answered with it
C23_Witness ==
    /\ fsData = "Empty" /\ fsExpires = "past"
    /\ fsRefreshing
    /\ \E r \in RefreshTasks : InFlight(r)
    /\ fsReply = "Empty"

C5_LiveWithinMaxSize == LiveConnections <= PoolMaxSize

\* max_size connections are alive, one of them idle and one on its way back,
\* while a further get request has found no permit and retries
C5_Witness ==
    /\ LiveConnections = PoolMaxSize
    /\ poolPermits = 0
    /\ \E g \in Getters : getter[g] = "retry"
    /\ \E g \in Getters : getter[g] = "holding"
    /\ poolPutting + Len(poolIdle) > 0

(***************************************************************************)
(* Claims about the generic cache.                                         *)
(***************************************************************************)
\* C6: for every key, under both policies, at most one loader call (initial
\* load or refresh) is in progress at any time, whatever number of get calls
\* arrive while it is in flight.
C6_SingleFlightLoad == \A k \in CacheKeys : Cardinality(LoadsOutstanding(k)) <= 1

(***************************************************************************)
(* Claims about the announce peer selection.                               *)
(***************************************************************************)
\* the entries of the swarm offered to the requester that pass the filter
Eligible(req) ==
    LET n(d) == Cardinality({i \in 1..Len(d) :
                    FamilyOf(d[i]) = req.sender_ip_type /\ d[i] # req.peer_id_key})
    IN  IF req.peer_type = "Leecher"
        THEN n(req.seeders) + n(req.leechers) + n(req.partial_seeds)
        ELSE n(req.leechers)

\* min(numwant if given else default_numwant, max_numwant)
Cap(req) ==
    IF req.numwant = NoNumwant
    THEN (IF DefaultNumwant <= MaxNumwant THEN DefaultNumwant ELSE MaxNumwant)
    ELSE (IF req.numwant <= MaxNumwant THEN req.numwant ELSE MaxNumwant)

\* C7: the number of peers returned in an announce response is at most
\* min(numwant if given else default_numwant, max_numwant), for any swarm
\* sizes, announce time and requester type, numwant = 0 included.
C7_PeersWithinNumwant == exPc = "done" => Len(exPeers) <= Cap(exReq)

\* a response cut at a cap given by the request and below max_numwant, with
\* more peers eligible and the seeders taken from a round-robin offset
C7_Witness ==
    /\ exPc = "done"
    /\ exReq.numwant = 1
    /\ Len(exPeers) = 1
    /\ Eligible(exReq) > 1
    /\ exReq.peer_type = "Leecher"
    /\ Len(exReq.seeders) > 1
    /\ exReq.announce_time % Len(exReq.seeders) # 0

\* peers is made of entries of seeders, then of leechers, then of
\* partial_seeds
InTableOrder(req, peers) ==
    \E i, j \in 0..Len(peers) :
        /\ i <= j
        /\ \A n \in 1..i : Has(req.seeders, peers[n])
        /\ \A n \in (i + 1)..j : Has(req.leechers, peers[n])
        /\ \A n \in (j + 1)..Len(peers) : Has(req.partial_seeds, peers[n])

\* C24: a requester of type Leecher is offered seeders, then leechers, then
\* partial_seeds: its peers come in that order of tables, and all three are
\* gone through when the cap is not reached; a Seeder or Partial requester is
\* offered leechers only: every peer it gets is an entry of leechers.
C24_TablesOffered ==
    exPc = "done" =>
        /\ exReq.peer_type = "Leecher" => InTableOrder(exReq, exPeers)
        /\ exReq.peer_type # "Leecher" =>
              \A n \in 1..Len(exPeers) : Has(exReq.leechers, exPeers[n])
        /\ Len(exPeers) < Cap(exReq) => Len(exPeers) = Eligible(exReq)

\* a leecher got a seeder first and then a partial seed, past a leechers
\* table that holds only the caller itself
C24_Witness ==
    /\ exPc = "done"
    /\ exReq.peer_type = "Leecher"
    /\ exReq.leechers = <<exReq.peer_id_key>>
    /\ Len(exPeers) = 2
    /\ Has(exReq.seeders, exPeers[1]) /\ ~Has(exReq.partial_seeds, exPeers[1])
    /\ Has(exReq.partial_seeds, exPeers[2]) /\ ~Has(exReq.seeders, exPeers[2])

\* the tables process_peers! hands to the extractor, in its order
OfferedTables(req) ==
    IF req.peer_type = "Leecher"
    THEN <<req.seeders, req.leechers, req.partial_seeds>>
    ELSE <<req.leechers>>

\* announce times that give every combination of offsets into the tables
RoundRobinTimes == 0..(MaxTableLen * (MaxTableLen + 1))

\* the announce made at time t gets k
ReturnedAt(req, t, k) ==
    Has(extract_peers_from_swarm([req EXCEPT !.announce_time = t]), k)

\* the entries passing the filter in the tables offered before the j-th
EligibleBefore(req, j) ==
    LET n(d) == Cardinality({i \in 1..Len(d) :
                    FamilyOf(d[i]) = req.sender_ip_type /\ d[i] # req.peer_id_key})
        tbl == OfferedTables(req)
    IN  IF j = 1 THEN 0
        ELSE IF j = 2 THEN n(tbl[1])
        ELSE n(tbl[1]) + n(tbl[2])

\* C27 as stated: with a cap of at least 1, every peer other than the caller
\* in the tables offered to the caller is returned for at least one value of
\* the announce time.
C27_NoStarvation ==
    (exPc = "done" /\ Cap(exReq) >= 1) =>
        \A j \in 1..Len(OfferedTables(exReq)) :
            \A i \in 1..Len(OfferedTables(exReq)[j]) :
                LET k == OfferedTables(exReq)[j][i]
                IN  k # exReq.peer_id_key =>
                        \E t \in RoundRobinTimes : ReturnedAt(exReq, t, k)

\* C27: with a cap of at least 1, every peer other than the caller and of
\* the caller's address family, in a table offered to the caller, is returned
\* for at least one value of the announce time, provided the tables offered
\* before its own hold fewer such peers than the cap.
C27_NoStarvationBelowCap ==
    (exPc = "done" /\ Cap(exReq) >= 1) =>
        \A j \in 1..Len(OfferedTables(exReq)) :
            \A i \in 1..Len(OfferedTables(exReq)[j]) :
                LET k == OfferedTables(exReq)[j][i]
                IN  (/\ k # exReq.peer_id_key
                     /\ FamilyOf(k) = exReq.sender_ip_type
                     /\ EligibleBefore(exReq, j) < Cap(exReq)) =>
                        \E t \in RoundRobinTimes : ReturnedAt(exReq, t, k)

\* a cap of 1 went to the head of a leechers table of two at this announce
\* time; the peer at its tail is returned at another
C27_Witness ==
    /\ exPc = "done"
    /\ Cap(exReq) = 1
    /\ exReq.peer_type = "Seeder"
    /\ Len(exReq.leechers) = 2
    /\ exReq.peer_id_key = "p3" /\ exReq.sender_ip_type = "V4"
    /\ exPeers = <<exReq.leechers[1]>>
    /\ ~ReturnedAt(exReq, exReq.announce_time, exReq.leechers[2])
    /\ \E t \in RoundRobinTimes : ReturnedAt(exReq, t, exReq.leechers[2])

\* C28: the response to an announce with cap c = min(numwant if given else
\* default_numwant, max_numwant) holds exactly min(c, e) peers, e being the
\* number of entries other than the caller, of the caller's address family,
\* in the tables offered to it, whatever the start offset.
C28_ExactlyMinCapEligible ==
    exPc = "done" => Len(exPeers) = Min(Cap(exReq), Eligible(exReq))

\* more peers eligible than the cap of 1; the rotation starts at the tail of
\* the seeders, an entry of the other family, and wraps around to its head
C28_Witness ==
    /\ exPc = "done"
    /\ exReq.peer_type = "Leecher"
    /\ Cap(exReq) = 1
    /\ Eligible(exReq) = 2
    /\ Len(exReq.seeders) = 2
    /\ FamilyOf(exReq.seeders[2]) # exReq.sender_ip_type
    /\ exReq.announce_time % 2 = 1
    /\ exPeers = <<exReq.seeders[1]>>

\* C8: the caller's own PeerIdKey is not among the peers returned in its
\* announce response, whichever table holds it and wherever the round-robin
\* offset starts.
C8_CallerNotReturned ==
    exPc = "done" => \A i \in 1..Len(exPeers) : exPeers[i] # exReq.peer_id_key

\* the rotation starts at the caller's own entry, which is of the family
\* asked for and met while the response is empty; the peer after it is
\* returned
C8_Witness ==
    /\ exPc = "done"
    /\ exReq.peer_type = "Seeder"
    /\ Len(exReq.leechers) = 2
    /\ exReq.leechers[2] = exReq.peer_id_key
    /\ FamilyOf(exReq.peer_id_key) = exReq.sender_ip_type
    /\ numwant(exReq) = 1
    /\ exReq.announce_time % 2 = 1
    /\ exPeers = <<exReq.leechers[1]>>

(***************************************************************************)
(* Claims about the Worker.                                                *)
(***************************************************************************)
\* C9: every Announce, Scrape or FullScrape packet accepted by the Worker
\* channel gets exactly one message on its reply channel: none before its
\* handler has finished, one once it has, never two.
C9_ExactlyOneReply ==
    \A i \in 1..Len(wkPackets) :
        LET p == wkPackets[i]
        IN  p.kind \in HandlerKinds /\ p.pc # "rejected" =>
                /\ p.replies <= 1
                /\ p.pc \in {"Ok", "Err"} => p.replies = 1
                /\ p.pc \in {"queued", "running"} => p.replies = 0

\* a packet accepted behind a Shutdown is still handled after the close and
\* answered once, with an error, while a later packet was turned away
C9_Witness ==
    /\ wkClosed
    /\ \E i, j, k \in 1..Len(wkPackets) :
          /\ i < j /\ j < k
          /\ wkPackets[i].kind = "Shutdown"
          /\ wkPackets[j].kind = "Announce"
          /\ wkPackets[j].pc = "Err"
          /\ wkPackets[j].replies = 1
          /\ wkPackets[k].pc = "rejected"

(***************************************************************************)
(* Claims about the announce response.                                     *)
(***************************************************************************)
\* C11: the complete and incomplete counts of a non-Stopped announce
\* response are |seeders| and |leechers| + |partial_seeds| of the swarm in
\* the state its peers are read from, whatever announces run concurrently.
C11_CountsFromPeersState ==
    [][\A t \in Tasks :
          resp[t].pc = "stats" /\ resp'[t].pc = "sent" /\ HasSwarm(t) =>
              /\ resp'[t].complete = complete_count(SwarmOf(t))
              /\ resp'[t].incomplete = incomplete_count(SwarmOf(t))]_vars

(***************************************************************************)
(* Further claims about the connection pool.                               *)
(***************************************************************************)
\* all max_size connections are checked out
AllCheckedOut == Cardinality({h \in Getters : getter[h] = "holding"}) = PoolMaxSize

\* the get of g has ended, with a connection or with an error
GetEnded(g) == getter[g] \in {"idle", "holding"}

\* C12: a get issued while all max_size connections are checked out ends
\* (with a Timeout error), unless a connection is returned, instead of
\* waiting without bound.
C12_GetEndsWhenExhausted ==
    \A g \in Getters :
        (getter[g] = "queued" /\ AllCheckedOut) ~> (GetEnded(g) \/ ~AllCheckedOut)

(***************************************************************************)
(* Further claims about the generic cache.                                 *)
(***************************************************************************)
\* the actor handles the Get message at the head of its channel
HandlesGet == cacheChan # <<>> /\ Head(cacheChan).type = "Get" /\ cacheChan' = Tail(cacheChan)

\* a failed load left its None in the entry of key k
HoldsFailedLoad(k) ==
    k \in DOMAIN cacheMap /\ cacheMap[k].state = "Valid" /\ cacheMap[k].value = "None"

\* C13: the None of a failed load is not retained as a value: the next get
\* of the key starts a new load instead of being answered None from the
\* cache.
C13_FailedLoadRetried ==
    [][HandlesGet /\ HoldsFailedLoad(Head(cacheChan).key) =>
          /\ Cardinality(cacheLoads') = Cardinality(cacheLoads) + 1
          /\ cacheGets'[Head(cacheChan).tx].pc # "done"]_vars

\* C14: when the event step of a Stopped announce has run, the announcing key
\* is in none of the three tables of its (infohash, family) swarm, whichever
\* table held it and whatever `left` the announce carries; and the response
\* of a Stopped announce carries no peers.
C14_StoppedRemovesKey ==
    [][\A t \in Tasks :
          /\ (Steps(t, "event") /\ task[t].event = "Stopped" /\ task'[t].pc = "respond"
              /\ <<task[t].ih, task[t].fam>> \in DOMAIN swarms')
             => TablesHolding(swarms'[<<task[t].ih, task[t].fam>>], task[t].key) = 0
          /\ (Steps(t, "respond") /\ task[t].event = "Stopped")
             => resp'[t].pc = "nopeers"]_vars

\* C15: every step keeps the relative order of the peers that stay in a
\* table: the iteration order of each peer table is the insertion order of
\* the peers in it, whatever inserts, updates, promotions and removals happen.
KeepsOrder(d, e) ==
    \A a, b \in SwarmKeys :
        (Has(d, a) /\ Has(d, b) /\ Has(e, a) /\ Has(e, b) /\ IndexOf(d, a) < IndexOf(d, b))
        => IndexOf(e, a) < IndexOf(e, b)

C15_InsertionOrderKept ==
    [][/\ KeepsOrder(oneSwarm.seeders, oneSwarm'.seeders)
       /\ KeepsOrder(oneSwarm.leechers, oneSwarm'.leechers)
       /\ KeepsOrder(oneSwarm.partial_seeds, oneSwarm'.partial_seeds)]_vars

(***************************************************************************)
(* Claims about the Worker's shutdown.                                     *)
(***************************************************************************)
Answered(i) ==
    /\ i <= Len(wkPackets)
    /\ wkPackets[i].pc \in {"Ok", "Err", "replied"}
    /\ wkPackets[i].replies = 1

Buffered(i) == i <= Len(wkPackets) /\ wkPackets[i].pc \in {"queued", "running"}

\* C16: once the loop has processed Shutdown, every packet still buffered is
\* dispatched and answered, every later work() call is turned away with a
\* send error and leaves the channel as it was, and the loop terminates.
C16_ShutdownDrains ==
    /\ \A i \in 1..MaxPackets : (wkClosed /\ Buffered(i)) ~> Answered(i)
    /\ [][wkClosed /\ Len(wkPackets') > Len(wkPackets) =>
             /\ wkPackets'[Len(wkPackets')].pc = "rejected"
             /\ wkChan' = wkChan]_vars
    /\ wkClosed ~> wkStopped

\* the loop has ended after a Shutdown behind which an Announce was buffered:
\* the Announce was answered, a later call was turned away
C16_Witness ==
    /\ wkStopped
    /\ \E i, j, k \in 1..Len(wkPackets) :
          /\ i < j /\ j < k
          /\ wkPackets[i].kind = "Shutdown" /\ wkPackets[i].pc = "replied"
          /\ wkPackets[j].kind = "Announce" /\ Answered(j)
          /\ wkPackets[k].pc = "rejected"

(***************************************************************************)
(* Claims about announce failures.                                         *)
(***************************************************************************)
\* an announce enters slot t and is turned away at once for its infohash
BlockedAt(t) == SlotFree(t) /\ issued' = issued + 1 /\ task'[t].error = "blocked infohash"

\* C17: an announce whose infohash is on the blocklist fails with "blocked
\* infohash" and leaves the store as it was, and the HTTP client receives a
\* bencoded failure whose failure reason is "blocked infohash".
C17_BlockedInfohash ==
    [][\A t \in Tasks : BlockedAt(t) =>
          /\ task'[t].pc = "err"
          /\ UNCHANGED <<torrents, swarms>>
          /\ AnnounceFailureBody(task'[t].error).failure_reason = "blocked infohash"]_vars

\* C18: an announce for an infohash without a torrent record fails with
\* "torrent not found" and leaves torrents and swarms as they were when
\* auto-register is off (so a store that starts empty stays empty); when it
\* is on, the announce goes on to insert the torrent and then to its event.
C18_UnknownTorrent ==
    /\ [][\A t \in Tasks :
            /\ (Steps(t, "has") /\ task[t].ih \notin DOMAIN torrents) =>
                  /\ UNCHANGED <<torrents, swarms>>
                  /\ IF autoRegister
                     THEN task'[t].pc = "insert"
                     ELSE task'[t].pc = "err" /\ task'[t].error = "torrent not found"
            /\ Steps(t, "insert") =>
                  /\ task[t].ih \in DOMAIN torrents'
                  /\ task'[t].pc = "event"]_vars
    /\ []((~autoRegister /\ torrents = <<>>) => swarms = <<>>)

\* auto-register is off, no torrent is known, and an announce has failed
\* with "torrent not found" after another one did
C18_Witness ==
    /\ ~autoRegister
    /\ torrents = <<>>
    /\ swarms = <<>>
    /\ issued >= 2
    /\ \A t \in Tasks : task[t].pc = "err" /\ task[t].error = "torrent not found"

(***************************************************************************)
(* Claims about Stopped announces from unrecorded peers.                   *)
(***************************************************************************)
\* the handler in slot t takes a step
HandlerStep(t) == task[t].pc \in {"has", "insert", "event", "respond"} /\ task'[t] # task[t]

\* the key of the announce in slot t is in no table of its swarm
KeyAbsent(t) ==
    <<task[t].ih, task[t].fam>> \in DOMAIN swarms
        => TablesHolding(swarms[<<task[t].ih, task[t].fam>>], task[t].key) = 0

PermitsWithoutConn == Cardinality({g \in Getters : getter[g] = "failed"})

\* the actor takes a PutConn message off its channel
HandlesPut == poolChan # <<>> /\ Head(poolChan).type = "PutConn" /\ poolChan' = Tail(poolChan)

\* C20: every live connection holds one permit from its creation until it is
\* dropped, so the permits out of the semaphore are exactly those of the live
\* connections (and of connect attempts that have just failed); a returned
\* connection is either dropped, not entering the idle queue and releasing
\* its permit, or appended to the idle queue with its permit still held.
C20_PermitHeldWhileAlive ==
    /\ [](poolPermits + LiveConnections + PermitsWithoutConn = PoolMaxSize)
    /\ [][HandlesPut =>
             \/ poolIdle' = poolIdle /\ poolPermits' = poolPermits + 1
             \/ /\ Len(poolIdle') = Len(poolIdle) + 1
                /\ SubSeq(poolIdle', 1, Len(poolIdle)) = poolIdle
                /\ poolPermits' = poolPermits]_vars

\* a returned connection sits in the idle queue, the other one is checked
\* out, and no permit is free
C20_Witness ==
    /\ poolIdle # <<>>
    /\ poolPermits = 0
    /\ poolChan = <<>>
    /\ poolPutting = 0
    /\ \E g \in Getters : getter[g] = "holding"
    /\ \A g \in Getters : getter[g] \in {"holding", "idle"}

(***************************************************************************)
(* Claims about the reaper of the connection pool.                         *)
(***************************************************************************)
\* the actor takes a Reap message off its channel
HandlesReap == poolChan # <<>> /\ Head(poolChan).type = "Reap" /\ poolChan' = Tail(poolChan)

\* C26: a reap drops the idle connections that have reached idle_timeout,
\* releasing their permits, keeps the younger ones in their order, and
\* closes only connections in excess of min_idle: it leaves at least
\* min_idle idle connections when that many were idle before it.
C26_ReapKeepsMinIdle ==
    [][HandlesReap =>
          /\ poolPermits' = poolPermits + (Len(poolIdle) - Len(poolIdle'))
          /\ \A i \in 1..Len(poolIdle') : poolIdle'[i] = "fresh"
          /\ Len(poolIdle') <= Len(poolIdle)
          /\ Len(poolIdle) >= PoolMinIdle => Len(poolIdle') >= PoolMinIdle]_vars

GuardsOf(p) == {l \in StoreLocks : \E h \in lkHolders[l] : h[1] = p}

\* C25: no storage operation has guards of two locks at the same time, and
\* none waits for a lock while it has a guard; so every operation started
\* returns, whatever the interleaving: the store cannot deadlock.
C25_OneLockAtATime ==
    /\ [](\A p \in OpSlots :
            /\ Cardinality(GuardsOf(p)) <= 1
            /\ lkProc[p].waiting => GuardsOf(p) = {})
    /\ \A p \in OpSlots : Running(p) ~> ~Running(p)

\* a full scrape has the swarms read guard of the second shard, having let
\* go of the first shard's, while a promotion waits to write there
C25_Witness ==
    \E p, q \in OpSlots :
        /\ lkProc[p].kind = "get_all_torrent_stats"
        /\ GuardsOf(p) = {<<"swarms", Shards[2]>>}
        /\ lkProc[q].kind = "promote_peer_in_swarm"
        /\ lkProc[q].waiting /\ lkProc[q].sh = Shards[2]
        /\ lkQueue[<<"swarms", Shards[2]>>] # <<>>

(***************************************************************************)
(* Claims about repeated Started announces.                                *)
(***************************************************************************)
\* the swarms a Started announce of key k from family fam with `left` leaves
StartedOnce(sw, ih, fam, k, left) ==
    PutSwarm(sw, ih, fam,
             EventSwarm(get_mut_or_insert_swarm(sw, ih, fam), k, "Started", left))

\* task t runs the Started event of a request whose Started has already been
\* applied to the swarms
RepeatsStarted(t) ==
    /\ task[t].pc = "event"
    /\ task[t].event = "Started"
    /\ task'[t].pc = "respond"
    /\ swarms = StartedOnce(swarms, task[t].ih, task[t].fam, task[t].key, task[t].left)

\* C29: two identical Started announces from the same PeerIdKey with the
\* same address leave the swarm (membership of each table, iteration order)
\* and the torrent's counters as a single such announce leaves them.
C29_StartedIdempotent ==
    /\ [](\A ih \in InfoHashes, fam \in Families, k \in PeerIdKeys, left \in LeftValues :
            LET once == StartedOnce(swarms, ih, fam, k, left)
            IN  StartedOnce(once, ih, fam, k, left) = once)
    /\ [][\A t \in Tasks :
            RepeatsStarted(t) => swarms' = swarms /\ torrents' = torrents]_vars

\* two Started announces of the same request have both been applied to a
\* swarm whose leechers table held another peer first
C29_Witness ==
    /\ issued = 3
    /\ task["t1"].pc = "respond" /\ task["t2"].pc = "respond"
    /\ task["t1"] = task["t2"]
    /\ task["t1"].event = "Started" /\ task["t1"].left = 1
    /\ <<task["t1"].ih, task["t1"].fam>> \in DOMAIN swarms
    /\ Len(swarms[<<task["t1"].ih, task["t1"].fam>>].leechers) = 2
    /\ swarms[<<task["t1"].ih, task["t1"].fam>>].leechers[2] = task["t1"].key

(***************************************************************************)
(* Claims about the order of dispatch and the state handed to handlers.    *)
(***************************************************************************)
\* packet i has been taken from the channel by the loop
Dispatched(i) == wkPackets[i].pc \notin {"queued", "rejected"}

\* the UpdateState packets dispatched before packet i entered the channel
UpdatesBefore(i) ==
    {j \in 1..(i - 1) : wkPackets[j].kind = "UpdateState" /\ wkPackets[j].pc = "replied"}

\* the state in the loop when packet i is dispatched: that of the latest
\* UpdateState before it, the initial state when there is none
StateFor(i) ==
    IF UpdatesBefore(i) = {} THEN 0
    ELSE CHOOSE j \in UpdatesBefore(i) : \A m \in UpdatesBefore(i) : m <= j

\* C30: packets are dispatched in the order they entered the Worker channel;
\* a handler dispatched after an UpdateState(s) runs against s (the latest
\* such s), and a handler dispatched before it keeps the state clone it was
\* spawned with.
C30_FifoDispatchAndState ==
    /\ [](\A i, j \in 1..Len(wkPackets) :
            (i < j /\ Dispatched(j)) => wkPackets[i].pc # "queued")
    /\ [](\A i \in 1..Len(wkPackets) :
            (wkPackets[i].kind \in HandlerKinds /\ Dispatched(i)) =>
                wkPackets[i].state = StateFor(i))
    /\ [][\A i \in 1..Len(wkPackets) :
            (wkPackets[i].kind \in HandlerKinds /\ Dispatched(i)) =>
                wkPackets'[i].state = wkPackets[i].state]_vars

\* a handler spawned with the initial state is still running after an
\* UpdateState was applied, and a handler dispatched after it got the new one
C30_Witness ==
    /\ Len(wkPackets) = 3
    /\ wkPackets[1].kind = "Announce" /\ wkPackets[1].pc = "running"
    /\ wkPackets[1].state = 0
    /\ wkPackets[2].kind = "UpdateState" /\ wkPackets[2].pc = "replied"
    /\ wkPackets[3].kind = "Scrape" /\ wkPackets[3].pc = "running"
    /\ wkPackets[3].state = 2

(***************************************************************************)
(* Claims about a Completed announce from a peer that is not a seeder.     *)
(***************************************************************************)
\* the handler in slot t takes a step of a Completed announce with left # 0
CompletedNotSeederStep(t) ==
    /\ task[t].pc \in {"has", "insert", "event"}
    /\ task[t].event = "Completed"
    /\ task[t].left # 0
    /\ task'[t] # task[t]

GetPending(g) ==
    getter[g] \in {"queued", "make", "retry", "acquire", "connect", "failed",
                   "checkout", "invalid"}

C33_CounterIsLiveHandles ==
    /\ ~shFreed => shCounter = shLive
    /\ shFreed <=> shLive = 0

(***************************************************************************)
(* Claims about a full-scrape refresh whose task fails.                    *)
(***************************************************************************)
\* refresh task r, whose FullScrape task gave an error or no output, does
\* its write
FailedRefreshWrites(r) == fsTask[r] = "Empty" /\ fsTask'[r] = "none"

\* C34: a refresh whose FullScrape task fails leaves the payload cached
\* before it in place (which is what readers go on receiving).
C34_FailedRefreshKeepsPayload ==
    [][\A r \in RefreshTasks :
        (FailedRefreshWrites(r) /\ fsData # "None") => fsData' = fsData]_vars

(***************************************************************************)
(* Claims about set and invalidate on the generic cache.                   *)
(***************************************************************************)
\* the actor handles the Load message at the head of its channel
HandlesLoad == cacheChan # <<>> /\ Head(cacheChan).type = "Load" /\ cacheChan' = Tail(cacheChan)

\* key k holds a value stored by set that has not expired; no load has been
\* started on the entry since the set (a load started on it would have left
\* it Refreshing)
HoldsSetValue(k) ==
    /\ k \in DOMAIN cacheMap
    /\ cacheMap[k].value \in SetValues
    /\ cacheMap[k].state = "Valid"
    /\ cacheMap[k].expire_at = "future"

\* C35: the result of a load that began before set(k, v) does not replace
\* v: when its Load message is handled while the entry holds the unexpired
\* set value, the entry keeps that value.
C35_SetNotReplacedByEarlierLoad ==
    [][HandlesLoad /\ HoldsSetValue(Head(cacheChan).key) =>
          cacheMap'[Head(cacheChan).key].value = cacheMap[Head(cacheChan).key].value]_vars

(***************************************************************************)
(* Claims about what a promotion lets other requests see.                  *)
(***************************************************************************)
\* announce t has moved its key to seeders under the swarms lock and has not
\* yet taken the torrents lock for the increment: what get_torrent_stats or
\* scrape reads now counts the seeder and not the completion
PromotionHalfDone(t) ==
    /\ task[t].pc = "incr"
    /\ <<task[t].ih, task[t].fam>> \in DOMAIN swarms
    /\ Has(swarms[<<task[t].ih, task[t].fam>>].seeders, task[t].key)

\* announce t leaves the point between the two locks
PromotionEnds(t) == task[t].pc = "incr" /\ task'[t] # task[t]

\* a promotion that moved its peer ends with its increment of completed, and
\* an announce that promoted reaches its response only through that step
PromotionCounted ==
    [][\A t \in Tasks :
        /\ PromotionEnds(t) =>
              /\ task[t].ih \in DOMAIN torrents
              /\ torrents'[task[t].ih] = torrents[task[t].ih] + 1
              /\ task'[t].pc = "respond" /\ task'[t].promoted
        /\ (task'[t].pc = "respond" /\ task[t].pc # "respond" /\ task'[t].promoted) =>
              PromotionEnds(t)]_vars

\* C36 as stated: no state shows a promotion half done (the peer in seeders,
\* completed not yet raised), and a promotion that moved the peer ends with
\* its increment.
C36_NoHalfDonePromotion ==
    /\ [](\A t \in Tasks : ~PromotionHalfDone(t))
    /\ PromotionCounted

\* C36 as the code has it: a promotion that moved the peer always ends with
\* its increment; the state between the two locks belongs to a Completed
\* announce of a seeder that moved its key, on a torrent and swarm that
\* exist.
C36_PromotionEndsWithIncrement ==
    /\ PromotionCounted
    /\ [](\A t \in Tasks :
            task[t].pc = "incr" =>
                /\ task[t].promoted /\ task[t].event = "Completed" /\ task[t].left = 0
                /\ task[t].ih \in DOMAIN torrents
                /\ <<task[t].ih, task[t].fam>> \in DOMAIN swarms)

\* a promotion is seen half done: the key counts as a seeder while the
\* counter of its torrent is still 0
C36_Witness ==
    \E t \in Tasks : PromotionHalfDone(t) /\ torrents[task[t].ih] = 0

CallsSet(r) == fsTask[r] \in Payloads /\ fsTask'[r] = "none"

\* C38: whenever CacheEntry::set is called on the full-scrape entry, the
\* refreshing flag is true.
C38_SetOnlyWhileRefreshing ==
    [][\A r \in RefreshTasks : CallsSet(r) => is_refreshing(fsRefreshing)]_vars

(***************************************************************************)
(* Claims about the assertions of the generic cache entry.                 *)
(***************************************************************************)
\* the actor evaluates entry.is_loading() (and, under RefreshBeforeAccess,
\* entry.is_refreshing()): a Get is handled for a key that has an entry
EvaluatesIsLoading ==
    /\ cacheChan # <<>> /\ Head(cacheChan).type = "Get" /\ cacheChan' = Tail(cacheChan)
    /\ Head(cacheChan).key \in DOMAIN cacheMap

\* C39: whenever the actor evaluates is_loading or is_refreshing on an
\* entry, the entry has a watch receiver.
C39_WatchPresentWhenAsked ==
    [][EvaluatesIsLoading => cacheMap[Head(cacheChan).key].watch_rx # 0]_vars

(***************************************************************************)
(* Claims about the arithmetic of the peer selection.                      *)
(***************************************************************************)
\* the calls of process that extract_peers_from_swarm makes for a request,
\* in order: the extractor's peer_count at the call and the table passed
ProcessCalls(req) ==
    IF req.peer_type = "Leecher"
    THEN LET a == process(<<>>, req.seeders, req)
             b == process(a.peers, req.leechers, req)
         IN  <<[peer_count |-> 0, peer_dict |-> req.seeders]>>
             \o (IF ~a.cont THEN <<>>
                 ELSE <<[peer_count |-> Len(a.peers), peer_dict |-> req.leechers]>>
                      \o (IF ~b.cont THEN <<>>
                          ELSE <<[peer_count |-> Len(b.peers),
                                  peer_dict |-> req.partial_seeds]>>))
    ELSE <<[peer_count |-> 0, peer_dict |-> req.leechers]>>

\* process goes past its first test and computes announce_time % total_peers
EvaluatesModulo(call, req) ==
    ~(usize_sub(numwant(req), call.peer_count) >= Len(call.peer_dict))

\* C40: at every call of process peer_count is at most numwant, and the
\* remainder announce_time % total_peers is taken only of a table that is
\* not empty, whatever the sizes of the tables and also for numwant = 0.
C40_NoUnderflowNoZeroModulo ==
    exPc = "done" =>
        \A i \in 1..Len(ProcessCalls(exReq)) :
            LET call == ProcessCalls(exReq)[i]
            IN  /\ call.peer_count <= numwant(exReq)
                /\ EvaluatesModulo(call, exReq) => Len(call.peer_dict) # 0

\* a leecher's announce filled its cap from the seeders; process was then
\* called with peer_count = numwant on the empty leechers table and again on
\* partial_seeds, where it took the remainder
C40_Witness ==
    /\ exPc = "done"
    /\ Len(ProcessCalls(exReq)) = 3
    /\ numwant(exReq) >= 1
    /\ ProcessCalls(exReq)[2].peer_count = numwant(exReq)
    /\ ProcessCalls(exReq)[2].peer_dict = <<>>
    /\ ProcessCalls(exReq)[3].peer_count = numwant(exReq)
    /\ EvaluatesModulo(ProcessCalls(exReq)[3], exReq)
====
